---- MODULE Spec2Model ----
(***************************************************************************)
(* Model of the Table Church community map (parrottly/table-community-map) *)
(*                                                                         *)
(*   src/netlify/functions/planning-center.js                              *)
(*       lines   1-235   the proxy function (handler, fetchGroups)         *)
(*       lines 236-738   class PlanningCenterAPI, the client with the      *)
(*                       resolver, the fuzzer and the distributor          *)
(*       lines 739-1028  class PlanningCenterAPI, the second variant of    *)
(*                       the client (no fuzzer, no distributor); its       *)
(*                       definitions carry the suffix 2 here               *)
(*   src/map.js          class CommunityMap (the presentation layer)       *)
(*       lines 449-695   a copy of the proxy function, with another filter *)
(*                       in fetchGroups (fetchGroups2 here)                *)
(*   src/script.js       class CommunityMapApp (init, refreshData)         *)
(*                                                                         *)
(* Conventions.  A JavaScript string is a TLA+ string; a string that is    *)
(* absent (undefined, null) or empty is "", the code reading every such    *)
(* field through ||, ! or filter(Boolean).  A coordinate pair [lat, lng]   *)
(* is <<lat, lng>> in units of 0.0001 degree, and a null or undefined      *)
(* coordinate is <<>>.  The attribute archived keeps its JavaScript value  *)
(* as one of "false", "true", "undefined".                                 *)
(***************************************************************************)
EXTENDS Integers, Sequences, FiniteSets, TLC

VARIABLES
    \* --- the classifier, applied to one attribute bag
    attributes,     \* the attribute bag handed to determineGroupType
    groupType,      \* what determineGroupType returned, "" before the call
    locationResult, \* what extractLocation returned, NoLocation before the call
    \* --- the proxy and the resolution pipeline of the client
    invocation,     \* one invocation of exports.handler: its event, the
                    \* environment, where it stands and what it returned
    sourceGroups,   \* responseData.data, the list Planning Center sent the proxy
    rawGroups,      \* data.groups, the list the proxy sent
    pipePc,         \* "source", "start", "processed", "distributed",
                    \* "redistributed", "fallback"
    processed,      \* what processGroups returned
    result,         \* what the pipeline (or getGroups) returned
    previousResult, \* what the distribution pass before the last returned
    rngStream,      \* the values Math.random() yields, in order, cyclically
    rngCalls,       \* how many times Math.random() has been called
    \* --- the page: CommunityMapApp, CommunityMap and the client it calls
    variant,        \* which client of planning-center.js the page loads: 1 or 2
    flowPc,         \* where init (flow 1) and each refreshData call stand
    response,       \* per flow, the Response the pending fetch resolved to
    settled,        \* per flow, what the promise of getGroups settled to
    running,        \* the flow whose continuations are being run, 0 when none
    getGroupsCalls, \* how many times getGroups has been called
    groups,         \* CommunityMap.groups
    markers,        \* CommunityMap.markers
    clusterLayers,  \* the layers of CommunityMap.markerClusterGroup
    sidebar,        \* data-group-id of the cards in #groups-list
    currentFilter   \* CommunityMap.currentFilter

classVars == <<attributes, groupType, locationResult>>
pipeVars == <<invocation, sourceGroups, rawGroups, pipePc, processed, result, previousResult,
              rngStream, rngCalls>>
appVars == <<variant, flowPc, response, settled, running, getGroupsCalls,
             groups, markers, clusterLayers, sidebar, currentFilter>>
vars == <<classVars, pipeVars, appVars>>

(***************************************************************************)
(* Bounds of the model.                                                    *)
(***************************************************************************)
\* words put together to make a group name
MaxWords == 2

(***************************************************************************)
(* JavaScript strings.                                                     *)
(***************************************************************************)
\* the letters String.prototype.toLowerCase changes, each with its lower case
LowerCaseOf ==
    [ A |-> "a", B |-> "b", C |-> "c", D |-> "d", E |-> "e", F |-> "f", G |-> "g",
      H |-> "h", I |-> "i", J |-> "j", K |-> "k", L |-> "l", M |-> "m", N |-> "n",
      O |-> "o", P |-> "p", Q |-> "q", R |-> "r", S |-> "s", T |-> "t", U |-> "u",
      V |-> "v", W |-> "w", X |-> "x", Y |-> "y", Z |-> "z" ]

CharAt(s, i) == SubSeq(s, i, i)

\* one character of String.prototype.toLowerCase
LowerChar(c) == IF c \in DOMAIN LowerCaseOf THEN LowerCaseOf[c] ELSE c

RECURSIVE LowerFrom(_, _)
LowerFrom(s, i) ==
    IF i > Len(s) THEN "" ELSE LowerChar(CharAt(s, i)) \o LowerFrom(s, i + 1)

\* String.prototype.toLowerCase
ToLowerCase(s) == LowerFrom(s, 1)

\* String.prototype.includes: k is read in s from some position on
Includes(s, k) == \E i \in 1..(Len(s) - Len(k) + 1) : SubSeq(s, i, i + Len(k) - 1) = k

(***************************************************************************)
(* The classifier.                                                         *)
(***************************************************************************)
affinityKeywords ==
    << "young adult", "ya", "professional", "graduate", "student",
       "women", "men", "lgbtq", "queer", "people of color", "poc",
       "parents", "family", "seniors", "older adult", "creative",
       "artist", "musician", "book", "hiking", "outdoors" >>

\* Array.prototype.some over affinityKeywords, from keyword i on
RECURSIVE SomeKeyword(_, _, _)
SomeKeyword(name, description, i) ==
    IF i > Len(affinityKeywords) THEN FALSE
    ELSE IF Includes(name, affinityKeywords[i])
            \/ Includes(description, affinityKeywords[i]) THEN TRUE
    ELSE SomeKeyword(name, description, i + 1)

\* a slip that reads the keywords in the text as typed, without lower-casing
determineGroupType_AsTyped(attrs) ==
    IF SomeKeyword(attrs.name, attrs.description, 1) THEN "affinity" ELSE "community"

\* a slip that trusts the group_type tag the source system sends
determineGroupType_ByTag(attrs) ==
    IF Includes(ToLowerCase(attrs.group_type), "affinity")
       \/ SomeKeyword(ToLowerCase(attrs.name), ToLowerCase(attrs.description), 1)
    THEN "affinity" ELSE "community"

determineGroupType(attrs) ==
    LET name == ToLowerCase(attrs.name)
        description == ToLowerCase(attrs.description)
        tags == attrs.group_type
        isAffinity == SomeKeyword(name, description, 1)
    IN  IF isAffinity THEN "affinity" ELSE "community"

(***************************************************************************)
(* The built-in fallback list of the client.                               *)
(***************************************************************************)
getFallbackGroups ==
    << [ id |-> "fallback-1",
         name |-> "Dupont Circle Community Group",
         description |-> "Weekly gathering for authentic community and spiritual growth",
         groupType |-> "community",
         location |-> [ address |-> "Dupont Circle, DC", neighborhood |-> "Dupont Circle",
                        coordinates |-> <<>>, hasSpecificLocation |-> TRUE ],
         coordinates |-> <<389097, -770365>>,
         meetingDay |-> "Wednesday evenings",
         contactInfo |-> "Contact church for details", lastUpdated |-> "",
         memberCount |-> 12, isActive |-> TRUE ],
       [ id |-> "fallback-2",
         name |-> "Young Adult Professionals",
         description |-> "Affinity group for young professionals navigating faith and career",
         groupType |-> "affinity",
         location |-> [ address |-> "Arlington, VA", neighborhood |-> "Arlington",
                        coordinates |-> <<>>, hasSpecificLocation |-> TRUE ],
         coordinates |-> <<388816, -770910>>,
         meetingDay |-> "Tuesday evenings",
         contactInfo |-> "Contact church for details", lastUpdated |-> "",
         memberCount |-> 8, isActive |-> TRUE ],
       [ id |-> "fallback-3",
         name |-> "Columbia Heights Community Group",
         description |-> "Diverse community group focused on justice and service",
         groupType |-> "community",
         location |-> [ address |-> "Columbia Heights, DC", neighborhood |-> "Columbia Heights",
                        coordinates |-> <<>>, hasSpecificLocation |-> TRUE ],
         coordinates |-> <<389289, -770353>>,
         meetingDay |-> "Thursday evenings",
         contactInfo |-> "Contact church for details", lastUpdated |-> "",
         memberCount |-> 15, isActive |-> TRUE ],
       [ id |-> "fallback-4",
         name |-> "LGBTQ+ Affinity Group",
         description |-> "Safe space for LGBTQ+ members and allies",
         groupType |-> "affinity",
         location |-> [ address |-> "Shaw, DC", neighborhood |-> "Shaw",
                        coordinates |-> <<>>, hasSpecificLocation |-> TRUE ],
         coordinates |-> <<389129, -770218>>,
         meetingDay |-> "Monthly gatherings",
         contactInfo |-> "Contact church for details", lastUpdated |-> "",
         memberCount |-> 6, isActive |-> TRUE ],
       [ id |-> "fallback-5",
         name |-> "Bethesda Community Group",
         description |-> "Suburban community group for families and individuals",
         groupType |-> "community",
         location |-> [ address |-> "Bethesda, MD", neighborhood |-> "Bethesda",
                        coordinates |-> <<>>, hasSpecificLocation |-> TRUE ],
         coordinates |-> <<389807, -771010>>,
         meetingDay |-> "Sunday afternoons",
         contactInfo |-> "Contact church for details", lastUpdated |-> "",
         memberCount |-> 10, isActive |-> TRUE ] >>

(***************************************************************************)
(* The fuzzer.  Math.random() is the engine's generator: call number n     *)
(* (from 0) yields rngStream[n mod RandPeriod], one of the RandDen levels  *)
(* 0/RandDen .. (RandDen-1)/RandDen of [0, 1).                             *)
(***************************************************************************)
\* levels of [0, 1) a draw can take
RandDen == 2
\* length of the stream of draws, which then repeats
RandPeriod == 3
\* 0.0072 degree, the width of the jitter window
JitterSpan == 72

RandomAt(n) == rngStream[(n % Len(rngStream)) + 1]

\* (Math.random() - 0.5) * 0.0072 for the draw r / RandDen
Offset(r) == ((2 * r - RandDen) * JitterSpan) \div (2 * RandDen)

\* a slip in the constant: 0.072 for 0.0072
addRandomOffset_WideSpan(coords, n) ==
    << coords[1] + ((2 * RandomAt(n) - RandDen) * JitterSpan * 10) \div (2 * RandDen),
       coords[2] + ((2 * RandomAt(n + 1) - RandDen) * JitterSpan * 10) \div (2 * RandDen) >>

\* n: how many draws were made before the call; the call makes two
addRandomOffset(coords, n) ==
    LET lat == coords[1]
        lng == coords[2]
        latOffset == Offset(RandomAt(n))
        lngOffset == Offset(RandomAt(n + 1))
    IN  << lat + latOffset, lng + lngOffset >>

(***************************************************************************)
(* The gazetteer and the resolver.                                         *)
(***************************************************************************)
dmvLocations ==
    << [place |-> "dupont circle", coords |-> <<389097, -770365>>],
       [place |-> "dupont", coords |-> <<389097, -770365>>],
       [place |-> "adams morgan", coords |-> <<389220, -770420>>],
       [place |-> "capitol hill", coords |-> <<388903, -769901>>],
       [place |-> "columbia heights", coords |-> <<389289, -770353>>],
       [place |-> "shaw", coords |-> <<389129, -770218>>],
       [place |-> "petworth", coords |-> <<389369, -770249>>],
       [place |-> "brookland", coords |-> <<389339, -769956>>],
       [place |-> "anacostia", coords |-> <<388622, -769810>>],
       [place |-> "foggy bottom", coords |-> <<389006, -770472>>],
       [place |-> "georgetown", coords |-> <<389076, -770723>>],
       [place |-> "logan circle", coords |-> <<389095, -770292>>],
       [place |-> "u street", coords |-> <<389169, -770281>>],
       [place |-> "h street", coords |-> <<388998, -769951>>],
       [place |-> "navy yard", coords |-> <<388762, -770065>>],
       [place |-> "downtown", coords |-> <<388951, -770364>>],
       [place |-> "chinatown", coords |-> <<388998, -770218>>],
       [place |-> "washington dc", coords |-> <<389072, -770369>>],
       [place |-> "washington", coords |-> <<389072, -770369>>],
       [place |-> "dc", coords |-> <<389072, -770369>>],
       [place |-> "arlington", coords |-> <<388816, -770910>>],
       [place |-> "alexandria", coords |-> <<388048, -770469>>],
       [place |-> "fairfax", coords |-> <<388462, -773064>>],
       [place |-> "vienna", coords |-> <<389012, -772653>>],
       [place |-> "reston", coords |-> <<389687, -773411>>],
       [place |-> "sterling", coords |-> <<390068, -774286>>],
       [place |-> "annandale", coords |-> <<388304, -771963>>],
       [place |-> "falls church", coords |-> <<388823, -771711>>],
       [place |-> "tysons", coords |-> <<389188, -772297>>],
       [place |-> "leesburg", coords |-> <<391156, -775636>>],
       [place |-> "herndon", coords |-> <<389696, -773861>>],
       [place |-> "mclean", coords |-> <<389338, -771775>>],
       [place |-> "springfield", coords |-> <<387893, -771872>>],
       [place |-> "burke", coords |-> <<387932, -772719>>],
       [place |-> "woodbridge", coords |-> <<386581, -772497>>],
       [place |-> "manassas", coords |-> <<387509, -774753>>],
       [place |-> "bethesda", coords |-> <<389807, -771010>>],
       [place |-> "rockville", coords |-> <<390840, -771528>>],
       [place |-> "silver spring", coords |-> <<389907, -770261>>],
       [place |-> "takoma park", coords |-> <<389779, -770074>>],
       [place |-> "college park", coords |-> <<389897, -769378>>],
       [place |-> "hyattsville", coords |-> <<389551, -769455>>],
       [place |-> "gaithersburg", coords |-> <<391434, -772014>>],
       [place |-> "germantown", coords |-> <<391712, -772717>>],
       [place |-> "wheaton", coords |-> <<390370, -770558>>],
       [place |-> "kensington", coords |-> <<390273, -770764>>],
       [place |-> "chevy chase", coords |-> <<389851, -770872>>],
       [place |-> "potomac", coords |-> <<390223, -772086>>],
       [place |-> "bowie", coords |-> <<389426, -767302>>],
       [place |-> "laurel", coords |-> <<390993, -768483>>],
       [place |-> "greenbelt", coords |-> <<389912, -768756>>],
       [place |-> "riverdale", coords |-> <<389584, -769119>>] >>

ArlingtonAnchor == <<388816, -770910>>
SilverSpringAnchor == <<389907, -770261>>
DCCenter == <<389072, -770369>>

Whitespace == { " ", "\t", "\n" }

RECURSIVE TrimStart(_)
TrimStart(s) ==
    IF Len(s) > 0 /\ CharAt(s, 1) \in Whitespace THEN TrimStart(SubSeq(s, 2, Len(s))) ELSE s

RECURSIVE TrimEnd(_)
TrimEnd(s) ==
    IF Len(s) > 0 /\ CharAt(s, Len(s)) \in Whitespace
    THEN TrimEnd(SubSeq(s, 1, Len(s) - 1)) ELSE s

\* String.prototype.trim
Trim(s) == TrimEnd(TrimStart(s))

\* locationString.split(',')[0]
RECURSIVE FirstPart(_, _)
FirstPart(s, i) ==
    IF i > Len(s) THEN s
    ELSE IF CharAt(s, i) = "," THEN SubSeq(s, 1, i - 1)
    ELSE FirstPart(s, i + 1)

extractNeighborhood_NoSplit(locationString) ==
    LET part == Trim(locationString)
    IN  IF part # "" THEN part ELSE "DMV Area"

extractNeighborhood(locationString) ==
    LET part == Trim(FirstPart(locationString, 1))
    IN  IF part # "" THEN part ELSE "DMV Area"

\* the exact lookup dmvLocations[location]: 0 when the key is absent
ExactIndex(location) ==
    IF \E i \in 1..Len(dmvLocations) : dmvLocations[i].place = location
    THEN CHOOSE i \in 1..Len(dmvLocations) : dmvLocations[i].place = location
    ELSE 0

\* the partial lookup taking the last key that matches, not the first
RECURSIVE PartialIndex_Last(_, _)
PartialIndex_Last(location, i) ==
    IF i > Len(dmvLocations) THEN 0
    ELSE LET later == PartialIndex_Last(location, i + 1)
         IN  IF later # 0 THEN later
             ELSE IF Includes(location, dmvLocations[i].place)
                     \/ Includes(dmvLocations[i].place, location) THEN i
             ELSE 0

\* the loop over Object.entries(dmvLocations), from entry i on: 0 when none matches
RECURSIVE PartialIndex(_, _)
PartialIndex(location, i) ==
    IF i > Len(dmvLocations) THEN 0
    ELSE IF Includes(location, dmvLocations[i].place)
            \/ Includes(dmvLocations[i].place, location) THEN i
    ELSE PartialIndex(location, i + 1)

\* dmvLocations is an object literal: dmvLocations[location] also finds what
\* the object inherits from Object.prototype.  These are the inherited names
\* a lower-cased string can equal; their values are truthy and not arrays.
InheritedKeys == { "constructor", "__proto__" }

\* the point geocodeLocation hands to addRandomOffset, and the rule that chose it
geocodeMatch(locationString) ==
    LET location == Trim(ToLowerCase(locationString))
        exact == ExactIndex(location)
        partial == PartialIndex(location, 1)
    IN  IF location \in InheritedKeys THEN [ rule |-> "inherited", coords |-> <<>> ]
        ELSE IF exact # 0 THEN [ rule |-> "exact", coords |-> dmvLocations[exact].coords ]
        ELSE IF partial # 0
        THEN [ rule |-> "partial", coords |-> dmvLocations[partial].coords ]
        ELSE IF Includes(location, "virginia") \/ Includes(location, "va")
        THEN [ rule |-> "virginia", coords |-> ArlingtonAnchor ]
        ELSE IF Includes(location, "maryland") \/ Includes(location, "md")
        THEN [ rule |-> "maryland", coords |-> SilverSpringAnchor ]
        ELSE [ rule |-> "default", coords |-> DCCenter ]

\* const [lat, lng] = coords (line 527) throws a TypeError when coords is not
\* iterable
geocodeLocationThrows(locationString) == geocodeMatch(locationString).rule = "inherited"

geocodeLocation(locationString, n) ==
    addRandomOffset(geocodeMatch(locationString).coords, n)

locationKeywords ==
    << "dupont circle", "dupont", "adams morgan", "capitol hill", "columbia heights",
       "shaw", "petworth", "brookland", "anacostia", "foggy bottom", "georgetown",
       "logan circle", "u street", "h street", "navy yard", "downtown", "chinatown",
       "washington dc", "washington", "dc",
       "arlington", "alexandria", "fairfax", "vienna", "reston", "sterling",
       "annandale", "falls church", "tysons", "leesburg", "herndon", "mclean",
       "springfield", "burke", "woodbridge", "manassas",
       "bethesda", "rockville", "silver spring", "takoma park", "college park",
       "hyattsville", "gaithersburg", "germantown", "wheaton", "kensington",
       "chevy chase", "potomac", "bowie", "laurel", "greenbelt", "riverdale",
       "northern virginia", "nova", "maryland", "virginia" >>

RECURSIVE FirstKeyword(_, _)
FirstKeyword(name, i) ==
    IF i > Len(locationKeywords) THEN ""
    ELSE IF Includes(name, locationKeywords[i]) THEN locationKeywords[i]
    ELSE FirstKeyword(name, i + 1)

\* the name searched as it is written, without toLowerCase
extractLocationFromName_CaseSensitive(groupName) ==
    IF groupName = "" THEN "" ELSE FirstKeyword(groupName, 1)

\* "" stands for the null the code returns
extractLocationFromName(groupName) ==
    IF groupName = "" THEN "" ELSE FirstKeyword(ToLowerCase(groupName), 1)

\* the test of lines 319-323, negated at lines 340-344
NoMeaningfulLocation(locationString) ==
    \/ locationString = ""
    \/ Trim(locationString) = ""
    \/ ToLowerCase(locationString) = "dmv area"
    \/ ToLowerCase(locationString) = "contact for location"
    \/ Includes(ToLowerCase(locationString), "varies")

\* [ ... ].filter(Boolean)[0] || ''
RECURSIVE FirstTruthy(_, _)
FirstTruthy(options, i) ==
    IF i > Len(options) THEN ""
    ELSE IF options[i] # "" THEN options[i]
    ELSE FirstTruthy(options, i + 1)

\* the location string extractLocation settles on
selectedLocation(attrs) ==
    LET locationOptions == << attrs.location_type_preference, attrs.location,
                              attrs.contact_info, attrs.church_center_url_location,
                              attrs.address, attrs.meeting_location >>
        first == FirstTruthy(locationOptions, 1)
        inferred == extractLocationFromName(attrs.name)
    IN  IF NoMeaningfulLocation(first)
        THEN (IF inferred # "" THEN inferred ELSE first)
        ELSE first

extractLocation(attrs, n) ==
    LET locationString == selectedLocation(attrs)
    IN  IF ~NoMeaningfulLocation(locationString)
        THEN [ address |-> locationString,
               neighborhood |-> extractNeighborhood(locationString),
               coordinates |-> geocodeLocation(locationString, n),
               hasSpecificLocation |-> TRUE ]
        ELSE [ address |-> "Contact for meeting location",
               neighborhood |-> "DMV Area",
               coordinates |-> <<>>,
               hasSpecificLocation |-> FALSE ]

\* extractLocation ends in the TypeError of geocodeLocation
extractLocationThrows(attrs) ==
    /\ ~NoMeaningfulLocation(selectedLocation(attrs))
    /\ geocodeLocationThrows(selectedLocation(attrs))

\* the draws extractLocation makes for one attribute bag
DrawsOf(attrs) ==
    IF NoMeaningfulLocation(selectedLocation(attrs)) \/ extractLocationThrows(attrs)
    THEN 0 ELSE 2

(***************************************************************************)
(* processGroups and distributeGroupsGeographically.                       *)
(***************************************************************************)
\* group.attributes || {}
NoAttributes ==
    [ name |-> "", description |-> "", group_type |-> "",
      location_type_preference |-> "", location |-> "", contact_info |-> "",
      church_center_url_location |-> "", address |-> "", meeting_location |-> "",
      schedule |-> "", contact_email |-> "", memberships_count |-> 0,
      archived |-> "undefined", updated_at |-> "" ]

\* the callback of rawGroups.map at lines 281-301
processGroup(group, n) ==
    LET attrs == group.attributes
        location == extractLocation(attrs, n)
    IN  [ id |-> group.id,
          name |-> IF attrs.name # "" THEN attrs.name ELSE "Unnamed Group",
          description |-> attrs.description,
          groupType |-> determineGroupType(attrs),
          location |-> location,
          meetingDay |-> IF attrs.schedule # "" THEN attrs.schedule
                         ELSE "Contact for details",
          contactInfo |-> attrs.contact_email,
          coordinates |-> location.coordinates,
          memberCount |-> attrs.memberships_count,
          isActive |-> (attrs.archived = "false"),
          lastUpdated |-> attrs.updated_at ]

\* rawGroups.map(...), from group i on, n draws made before
RECURSIVE MapGroups(_, _, _)
MapGroups(raw, i, n) ==
    IF i > Len(raw) THEN <<>>
    ELSE <<processGroup(raw[i], n)>> \o MapGroups(raw, i + 1, n + DrawsOf(raw[i].attributes))

RECURSIVE DrawsOfAll(_, _)
DrawsOfAll(raw, i) ==
    IF i > Len(raw) THEN 0 ELSE DrawsOf(raw[i].attributes) + DrawsOfAll(raw, i + 1)

\* the filter of the second client, line 797, in place of that of line 301
processGroups_DropUnplaced(raw, n) ==
    SelectSeq(MapGroups(raw, 1, n), LAMBDA g : g.isActive /\ g.coordinates # <<>>)

processGroups(raw, n) ==
    SelectSeq(MapGroups(raw, 1, n), LAMBDA g : g.isActive)

distributionPoints ==
    << [name |-> "Dupont Circle", coords |-> <<389097, -770365>>],
       [name |-> "Arlington", coords |-> <<388816, -770910>>],
       [name |-> "Columbia Heights", coords |-> <<389289, -770353>>],
       [name |-> "Bethesda", coords |-> <<389807, -771010>>],
       [name |-> "Alexandria", coords |-> <<388048, -770469>>],
       [name |-> "Silver Spring", coords |-> <<389907, -770261>>],
       [name |-> "Capitol Hill", coords |-> <<388903, -769901>>],
       [name |-> "Fairfax", coords |-> <<388462, -773064>>],
       [name |-> "Georgetown", coords |-> <<389076, -770723>>],
       [name |-> "Adams Morgan", coords |-> <<389220, -770420>>],
       [name |-> "Rockville", coords |-> <<390840, -771528>>],
       [name |-> "Takoma Park", coords |-> <<389779, -770074>>] >>

\* a distributor that leaves the address of the unresolved record in place
placeGroup_KeepAddress(group, distributionIndex, n) ==
    LET point == distributionPoints[(distributionIndex % Len(distributionPoints)) + 1]
    IN  [ group EXCEPT
            !.location = [ group.location EXCEPT
                             !.neighborhood = point.name,
                             !.coordinates = addRandomOffset(point.coords, n),
                             !.hasSpecificLocation = TRUE ],
            !.coordinates = addRandomOffset(point.coords, n + 2) ]

\* a distributor that stays on the last point once it has used them all
placeGroup_NoWrap(group, distributionIndex, n) ==
    LET last == Len(distributionPoints) - 1
        point == distributionPoints[(IF distributionIndex > last THEN last
                                     ELSE distributionIndex) + 1]
    IN  [ group EXCEPT
            !.location = [ group.location EXCEPT
                             !.address = point.name \o " area",
                             !.neighborhood = point.name,
                             !.coordinates = addRandomOffset(point.coords, n),
                             !.hasSpecificLocation = TRUE ],
            !.coordinates = addRandomOffset(point.coords, n + 2) ]

\* the record built at lines 581-591 for a group without coordinates
placeGroup(group, distributionIndex, n) ==
    LET point == distributionPoints[(distributionIndex % Len(distributionPoints)) + 1]
    IN  [ group EXCEPT
            !.location = [ group.location EXCEPT
                             !.address = point.name \o " area",
                             !.neighborhood = point.name,
                             !.coordinates = addRandomOffset(point.coords, n),
                             !.hasSpecificLocation = TRUE ],
            !.coordinates = addRandomOffset(point.coords, n + 2) ]

\* a pass whose counter counts every record, placed or passed through
RECURSIVE MapDistribute_CountAll(_, _, _, _)
MapDistribute_CountAll(groupList, i, distributionIndex, n) ==
    IF i > Len(groupList) THEN <<>>
    ELSE IF groupList[i].coordinates # <<>>
    THEN <<groupList[i]>> \o MapDistribute_CountAll(groupList, i + 1, distributionIndex + 1, n)
    ELSE <<placeGroup(groupList[i], distributionIndex, n)>>
            \o MapDistribute_CountAll(groupList, i + 1, distributionIndex + 1, n + 4)

\* groupList.map(...), from group i on, with the running distributionIndex
RECURSIVE MapDistribute(_, _, _, _)
MapDistribute(groupList, i, distributionIndex, n) ==
    IF i > Len(groupList) THEN <<>>
    ELSE IF groupList[i].coordinates # <<>>
    THEN <<groupList[i]>> \o MapDistribute(groupList, i + 1, distributionIndex, n)
    ELSE <<placeGroup(groupList[i], distributionIndex, n)>>
            \o MapDistribute(groupList, i + 1, distributionIndex + 1, n + 4)

\* a pass whose counter carries on from what ran before it
distributeGroupsGeographically_SharedCounter(groupList, n) ==
    MapDistribute(groupList, 1, n, n)

\* a pass that puts back the name the client gives a group without one
distributeGroupsGeographically_Rename(groupList, n) ==
    LET placed == MapDistribute(groupList, 1, 0, n)
    IN  [ i \in 1..Len(placed) |->
            IF groupList[i].coordinates = <<>>
            THEN [ placed[i] EXCEPT !.name = "Unnamed Group" ]
            ELSE placed[i] ]

distributeGroupsGeographically(groupList, n) == MapDistribute(groupList, 1, 0, n)

Unplaced(groupList) == SelectSeq(groupList, LAMBDA g : g.coordinates = <<>>)

(***************************************************************************)
(* The classifier on its own: any attribute bag, one call.                 *)
(***************************************************************************)
Words == { "Wo", "MEN", "y", "A ", "tor", "Book" }

RECURSIVE Phrases(_)
Phrases(n) ==
    IF n = 0 THEN { "" }
    ELSE Phrases(n - 1) \cup { p \o w : p \in Phrases(n - 1), w \in Words }

FallbackTexts(field) == { getFallbackGroups[i][field] : i \in 1..Len(getFallbackGroups) }

GroupNames == Phrases(MaxWords) \cup FallbackTexts("name")
Descriptions == { "", "for the wOmen of Shaw", "Families and individuals" }
                    \cup FallbackTexts("description")
GroupTypeTags == { "", "Affinity Group" }

\* refreshData calls made after the page has started
MaxRefreshes == 1

\* flow 1 is CommunityMapApp.init, flow f + 1 the f-th call of refreshData
Flows == 1..(1 + MaxRefreshes)

\* the JSON value null
JsonNull == [ null |-> TRUE ]

IsNull(v) == DOMAIN v = { "null" }

NoResponse == [ ok |-> FALSE, status |-> 0, parses |-> FALSE, data |-> JsonNull ]

Pending == [ status |-> "pending", value |-> <<>> ]

\* exports.handler has not been invoked
NoInvocation ==
    [ event |-> [ httpMethod |-> "", path |-> "" ],
      env |-> [ PLANNING_CENTER_CLIENT_ID |-> "", PLANNING_CENTER_SECRET |-> "" ],
      pc |-> "none", envRead |-> FALSE, requests |-> <<>>,
      upstream |-> NoResponse, returned |-> [ statusCode |-> 0, body |-> <<>> ] ]

\* the fields the constructors of map.js (5-20) and script.js (5-9) set
AppIdle ==
    /\ variant = 1
    /\ flowPc = [ f \in Flows |-> "idle" ]
    /\ response = [ f \in Flows |-> NoResponse ]
    /\ settled = [ f \in Flows |-> Pending ]
    /\ running = 0
    /\ getGroupsCalls = 0
    /\ groups = <<>>
    /\ markers = <<>>
    /\ clusterLayers = <<>>
    /\ sidebar = <<>>
    /\ currentFilter = "all"

PipeIdle ==
    /\ invocation = NoInvocation
    /\ sourceGroups = <<>>
    /\ rawGroups = <<>>
    /\ pipePc = "idle"
    /\ processed = <<>>
    /\ result = <<>>
    /\ previousResult = <<>>
    /\ rngStream = <<>>
    /\ rngCalls = 0

\* extractLocation has not been called
NoLocation ==
    [ address |-> "", neighborhood |-> "", coordinates |-> <<>>,
      hasSpecificLocation |-> FALSE ]

ClassIdle ==
    /\ attributes = [ name |-> "", description |-> "", group_type |-> "" ]
    /\ groupType = ""
    /\ locationResult = NoLocation

ClassInit ==
    /\ attributes \in [ name : GroupNames, description : Descriptions,
                        group_type : GroupTypeTags ]
    /\ groupType = ""
    /\ locationResult = NoLocation
    /\ PipeIdle
    /\ AppIdle

DetermineGroupType ==
    /\ groupType = ""
    /\ groupType' = determineGroupType(attributes)
    /\ UNCHANGED <<attributes, locationResult, pipeVars, appVars>>

ClassNext == DetermineGroupType

SpecClassify == ClassInit /\ [][ClassNext]_vars

(***************************************************************************)
(* C9.  determineGroupType returns "affinity" exactly when the lower-cased *)
(* name or the lower-cased description holds a keyword of the fixed list   *)
(* as a substring, and "community" otherwise; nothing but the name and the *)
(* description decides the result.                                         *)
(***************************************************************************)
\* k occurs in s: s is some text, then k, then some text
Occurs(k, s) ==
    \E i \in 0..Len(s) : \E j \in i..Len(s) :
        j - i = Len(k) /\ s = SubSeq(s, 1, i) \o k \o SubSeq(s, j + 1, Len(s))

KeywordSet == { affinityKeywords[i] : i \in 1..Len(affinityKeywords) }

HoldsKeyword(text) == \E k \in KeywordSet : Occurs(k, ToLowerCase(text))

C9_ClassifierBySubstring ==
    groupType # "" =>
        /\ groupType \in { "affinity", "community" }
        /\ groupType = "affinity" <=>
               (HoldsKeyword(attributes.name) \/ HoldsKeyword(attributes.description))

\* an upper-case keyword that crosses a word boundary decides the type
C9_Witness ==
    /\ attributes.name = "WoMEN"
    /\ attributes.description = ""
    /\ attributes.group_type = ""
    /\ groupType = "affinity"

(***************************************************************************)
(* C10.  The groupType written in each fallback record is what the         *)
(* classifier returns for that record's name and description.              *)
(***************************************************************************)
C10_FallbackTypesAgree ==
    /\ groupType # "" =>
        \A i \in 1..Len(getFallbackGroups) :
            ( /\ attributes.name = getFallbackGroups[i].name
              /\ attributes.description = getFallbackGroups[i].description )
            => groupType = getFallbackGroups[i].groupType
    /\ Len(getFallbackGroups) = 5

C10_Witness ==
    /\ attributes.name = getFallbackGroups[4].name
    /\ attributes.description = getFallbackGroups[4].description
    /\ groupType = "affinity"

(***************************************************************************)
(* The pipeline on its own: one list from the proxy, one stream of draws.  *)
(* getGroups (lines 246-249) returns the fallback list before it fetches;  *)
(* processGroups and distributeGroupsGeographically are applied in the     *)
(* order lines 268-271 compose them.                                       *)
(***************************************************************************)
\* groups in the list the proxy sends
MaxGroups == 2

Bag(name, preference, location, archived) ==
    [ NoAttributes EXCEPT !.name = name, !.location_type_preference = preference,
                          !.location = location, !.archived = archived,
                          !.memberships_count = 7 ]

RawGroupPool ==
    { [ id |-> "101", attributes |-> Bag("Supper Club", "Capitol Hill", "", "false") ],
      [ id |-> "102", attributes |-> Bag("Young Adults", "", "Old Town, Alexandria VA", "false") ],
      [ id |-> "103", attributes |-> Bag("Arlington Young Professionals", "DMV Area", "", "false") ],
      [ id |-> "104", attributes |-> Bag("Sunday Hikers", "Varies by week", "Shaw", "false") ],
      [ id |-> "105", attributes |-> Bag("", "", "", "false") ],
      [ id |-> "106", attributes |-> Bag("Retired", "Bethesda", "", "true") ] }

RECURSIVE ListsUpTo(_)
ListsUpTo(n) ==
    IF n = 0 THEN { <<>> }
    ELSE ListsUpTo(n - 1)
            \cup { Append(l, g) : l \in { x \in ListsUpTo(n - 1) : Len(x) = n - 1 },
                                  g \in RawGroupPool }

IdDigits == << "0", "1", "2", "3", "4", "5", "6", "7", "8", "9" >>

\* a group with no location in any field and no place name in its name
UnresolvedGroup(i) ==
    [ id |-> "2" \o IdDigits[(i \div 10) + 1] \o IdDigits[(i % 10) + 1],
      attributes |-> Bag("Book Club", "DMV Area", "", "false") ]

\* one more unresolved group than there are distribution points, and a
\* resolved one among them
WrapList ==
    [ i \in 1..(Len(distributionPoints) + 2) |->
        IF i = 3 THEN [ id |-> "101", attributes |-> Bag("Supper Club", "Capitol Hill", "", "false") ]
        ELSE UnresolvedGroup(i) ]

RawLists == ListsUpTo(MaxGroups) \cup { WrapList }

PipeInit ==
    /\ invocation = NoInvocation
    /\ sourceGroups = <<>>
    /\ rawGroups \in RawLists
    /\ rngStream \in [ 1..RandPeriod -> 0..(RandDen - 1) ]
    /\ rngCalls = 0
    /\ pipePc = "start"
    /\ processed = <<>>
    /\ result = <<>>
    /\ previousResult = <<>>
    /\ ClassIdle
    /\ AppIdle

\* getGroups as written: the return of line 249
GetGroups ==
    /\ pipePc = "start"
    /\ result' = getFallbackGroups
    /\ pipePc' = "fallback"
    /\ UNCHANGED <<invocation, sourceGroups, rawGroups, processed, previousResult,
                   rngStream, rngCalls, classVars, appVars>>

\* the callback of rawGroups.map throws for some group
processGroupsThrows(raw) ==
    \E i \in 1..Len(raw) : extractLocationThrows(raw[i].attributes)

\* the draws made before the callback throws
RECURSIVE DrawsBeforeThrow(_, _)
DrawsBeforeThrow(raw, i) ==
    IF i > Len(raw) \/ extractLocationThrows(raw[i].attributes) THEN 0
    ELSE DrawsOf(raw[i].attributes) + DrawsBeforeThrow(raw, i + 1)

ProcessGroups ==
    /\ pipePc = "start"
    /\ IF processGroupsThrows(rawGroups)
       THEN \* caught at line 273: getGroups returns the fallback list
            /\ result' = getFallbackGroups
            /\ rngCalls' = rngCalls + DrawsBeforeThrow(rawGroups, 1)
            /\ pipePc' = "fallback"
            /\ UNCHANGED processed
       ELSE /\ processed' = processGroups(rawGroups, rngCalls)
            /\ rngCalls' = rngCalls + DrawsOfAll(rawGroups, 1)
            /\ pipePc' = "processed"
            /\ UNCHANGED result
    /\ UNCHANGED <<invocation, sourceGroups, rawGroups, previousResult, rngStream,
                   classVars, appVars>>

\* one pass of the distributor over the processed list; a second pass over
\* the same list is a later call with the same input
DistributeGroupsGeographically ==
    /\ pipePc \in { "processed", "distributed" }
    /\ result' = distributeGroupsGeographically(processed, rngCalls)
    /\ previousResult' = result
    /\ rngCalls' = rngCalls + 4 * Len(Unplaced(processed))
    /\ pipePc' = IF pipePc = "processed" THEN "distributed" ELSE "redistributed"
    /\ UNCHANGED <<invocation, sourceGroups, rawGroups, processed, rngStream,
                   classVars, appVars>>

PipeNext == GetGroups \/ ProcessGroups \/ DistributeGroupsGeographically

SpecPipeline == PipeInit /\ [][PipeNext]_vars

(***************************************************************************)
(* C1.  Every record getGroups returns has non-null coordinates, on the    *)
(* live path (processGroups, then distributeGroupsGeographically) and in   *)
(* the fallback list, and the live path returns every active record the    *)
(* proxy sent, in order: one whose location could not be resolved is put   *)
(* on a distribution point, not dropped.                                   *)
(***************************************************************************)
Ids(list) == [ i \in 1..Len(list) |-> list[i].id ]

ActiveRaw == SelectSeq(rawGroups, LAMBDA g : g.attributes.archived = "false")

C1_EveryRecordPlaced ==
    /\ pipePc \in { "distributed", "fallback" } =>
           \A i \in 1..Len(result) : result[i].coordinates # <<>>
    /\ pipePc = "distributed" => Ids(result) = Ids(ActiveRaw)

\* an active record the resolver could not place comes out with coordinates
C1_Witness ==
    /\ pipePc = "distributed"
    /\ Len(result) = 2
    /\ processed[1].coordinates = <<>>
    /\ processed[2].coordinates # <<>>
    /\ result[1].coordinates # <<>>

(***************************************************************************)
(* C2.  No record getGroups returns carries the literal, unjittered        *)
(* coordinates of a gazetteer entry or of a distribution anchor, in the    *)
(* fallback list as in resolved and distributed records.                   *)
(***************************************************************************)
LiteralPoints ==
    { dmvLocations[i].coords : i \in 1..Len(dmvLocations) }
        \cup { distributionPoints[i].coords : i \in 1..Len(distributionPoints) }
        \cup { ArlingtonAnchor, SilverSpringAnchor, DCCenter }

C2_NeverLiteral ==
    pipePc \in { "distributed", "fallback" } =>
        \A i \in 1..Len(result) : result[i].coordinates \notin LiteralPoints

(***************************************************************************)
(* C3.  addRandomOffset moves a point by at most 0.0036 degree in latitude *)
(* and in longitude: every resolved record lies within that of the point   *)
(* geocodeLocation chose for its location string, every distributed record *)
(* within that of the anchor it was put on.                                *)
(***************************************************************************)
Abs(x) == IF x < 0 THEN -x ELSE x

WithinJitter(c, p) ==
    /\ 2 * Abs(c[1] - p[1]) <= JitterSpan
    /\ 2 * Abs(c[2] - p[2]) <= JitterSpan

\* the anchor of the record at position i of processed, were it unplaced
AnchorOf(i) ==
    distributionPoints[(Len(Unplaced(SubSeq(processed, 1, i - 1)))
                            % Len(distributionPoints)) + 1]

C3_JitterBounded ==
    /\ pipePc \in { "processed", "distributed" } =>
           \A i \in 1..Len(processed) :
               processed[i].coordinates # <<>> =>
                   WithinJitter(processed[i].coordinates,
                                geocodeMatch(processed[i].location.address).coords)
    /\ pipePc = "distributed" =>
           \A i \in 1..Len(result) :
               IF processed[i].coordinates # <<>>
               THEN WithinJitter(result[i].coordinates,
                                 geocodeMatch(processed[i].location.address).coords)
               ELSE /\ WithinJitter(result[i].coordinates, AnchorOf(i).coords)
                    /\ WithinJitter(result[i].location.coordinates, AnchorOf(i).coords)

\* a resolved record and a distributed one, each moved off its source point
C3_Witness ==
    /\ pipePc = "distributed"
    /\ Len(result) = 2
    /\ processed[1].coordinates # <<>>
    /\ result[1].coordinates # geocodeMatch(processed[1].location.address).coords
    /\ processed[2].coordinates = <<>>
    /\ result[2].coordinates # AnchorOf(2).coords

(***************************************************************************)
(* C4.  The fuzzer is applied once per record: the distributor makes one   *)
(* call of addRandomOffset (two draws) for each record it places, and the  *)
(* one jittered pair is both the stored location.coordinates and the       *)
(* displayed coordinates.                                                  *)
(***************************************************************************)
C4_FuzzedOnce ==
    pipePc = "distributed" =>
        /\ rngCalls - DrawsOfAll(rawGroups, 1) = 2 * Len(Unplaced(processed))
        /\ \A i \in 1..Len(result) :
               result[i].location.coordinates = result[i].coordinates

(***************************************************************************)
(* The second client of planning-center.js (lines 742-1026): no fuzzer and *)
(* no distributor; its getGroups fetches from the proxy.                   *)
(***************************************************************************)
dmvLocations2 ==
    << [place |-> "dupont circle", coords |-> <<389097, -770365>>],
       [place |-> "adams morgan", coords |-> <<389220, -770420>>],
       [place |-> "capitol hill", coords |-> <<388903, -769901>>],
       [place |-> "columbia heights", coords |-> <<389289, -770353>>],
       [place |-> "shaw", coords |-> <<389129, -770218>>],
       [place |-> "petworth", coords |-> <<389369, -770249>>],
       [place |-> "brookland", coords |-> <<389339, -769956>>],
       [place |-> "anacostia", coords |-> <<388622, -769810>>],
       [place |-> "arlington", coords |-> <<388816, -770910>>],
       [place |-> "alexandria", coords |-> <<388048, -770469>>],
       [place |-> "fairfax", coords |-> <<388462, -773064>>],
       [place |-> "vienna", coords |-> <<389012, -772653>>],
       [place |-> "reston", coords |-> <<389687, -773411>>],
       [place |-> "sterling", coords |-> <<390068, -774286>>],
       [place |-> "bethesda", coords |-> <<389807, -771010>>],
       [place |-> "rockville", coords |-> <<390840, -771528>>],
       [place |-> "silver spring", coords |-> <<389907, -770261>>],
       [place |-> "takoma park", coords |-> <<389779, -770074>>],
       [place |-> "college park", coords |-> <<389897, -769378>>],
       [place |-> "hyattsville", coords |-> <<389551, -769455>>] >>

\* the loop over Object.entries(dmvLocations), from entry i on
RECURSIVE geocodeFrom2(_, _)
geocodeFrom2(location, i) ==
    IF i > Len(dmvLocations2) THEN DCCenter
    ELSE IF Includes(location, dmvLocations2[i].place) THEN dmvLocations2[i].coords
    ELSE geocodeFrom2(location, i + 1)

geocodeLocation2(locationString) == geocodeFrom2(ToLowerCase(locationString), 1)

extractLocation2(attrs) ==
    LET locationString ==
            IF attrs.location_type_preference # "" THEN attrs.location_type_preference
            ELSE IF attrs.location # "" THEN attrs.location
            ELSE "DMV Area"
        coordinates == geocodeLocation2(locationString)
    IN  [ address |-> locationString,
          neighborhood |-> extractNeighborhood(locationString),
          coordinates |-> coordinates ]

\* the callback of rawGroups.map at lines 777-796
processGroup2(group) ==
    LET attrs == IF "attributes" \in DOMAIN group THEN group.attributes ELSE NoAttributes
        location == extractLocation2(attrs)
    IN  [ id |-> group.id,
          name |-> IF attrs.name # "" THEN attrs.name ELSE "Unnamed Group",
          description |-> attrs.description,
          groupType |-> determineGroupType(attrs),
          location |-> location,
          meetingDay |-> IF attrs.schedule # "" THEN attrs.schedule
                         ELSE "Contact for details",
          contactInfo |-> attrs.contact_email,
          coordinates |-> location.coordinates,
          memberCount |-> attrs.memberships_count,
          isActive |-> (attrs.archived = "false"),
          lastUpdated |-> attrs.updated_at ]

\* group.attributes of a null element throws a TypeError
processGroupsThrows2(raw) == \E i \in 1..Len(raw) : IsNull(raw[i])

processGroups2(raw) ==
    SelectSeq([ i \in 1..Len(raw) |-> processGroup2(raw[i]) ],
              LAMBDA g : g.isActive /\ g.coordinates # <<>>)

\* the records of lines 895-971: coordinates under location only
FallbackRecord2(i) ==
    LET g == getFallbackGroups[i]
    IN  [ id |-> g.id, name |-> g.name, description |-> g.description,
          groupType |-> g.groupType,
          location |-> [ address |-> g.location.address,
                         neighborhood |-> g.location.neighborhood,
                         coordinates |-> g.coordinates ],
          meetingDay |-> g.meetingDay, contactInfo |-> g.contactInfo,
          memberCount |-> g.memberCount, isActive |-> g.isActive ]

getFallbackGroups2 == [ i \in 1..5 |-> FallbackRecord2(i) ]

(***************************************************************************)
(* The page.  A task of the event loop (DOMContentLoaded, a call of        *)
(* refreshData, a change of the filter, a fetch or a body read settling)   *)
(* starts only when no continuation is pending (running = 0); the          *)
(* continuations of the awaits it wakes run one after another before the   *)
(* next task, and before the browser paints.  An await on fetch, text() or *)
(* json() ends the task.                                                   *)
(***************************************************************************)
ResponseGroups ==
    [ supper |-> [ id |-> "201", attributes |-> Bag("Supper Club", "Shaw", "", "false") ],
      retired |-> [ id |-> "202", attributes |-> Bag("Retired", "Bethesda", "", "true") ],
      book |-> [ id |-> "203", attributes |-> Bag("Book Circle", "", "Bethesda, MD", "false") ] ]

GroupLists ==
    { <<>>,
      << ResponseGroups.supper, ResponseGroups.retired >>,
      << ResponseGroups.book, ResponseGroups.supper >>,
      << ResponseGroups.book, JsonNull >> }

\* what fetch can resolve to: the answers of the proxy (200 with groups and
\* lastUpdated, 500 with error and details), and bodies of any other shape
Responses ==
    { [ ok |-> FALSE, status |-> 500, parses |-> TRUE,
        data |-> [ error |-> "Failed to fetch groups from Planning Center",
                   details |-> "Planning Center API error: 401" ] ],
      [ ok |-> TRUE, status |-> 200, parses |-> FALSE, data |-> JsonNull ],
      [ ok |-> TRUE, status |-> 200, parses |-> TRUE, data |-> JsonNull ],
      [ ok |-> TRUE, status |-> 200, parses |-> TRUE, data |-> [ error |-> "Unknown endpoint" ] ],
      [ ok |-> TRUE, status |-> 200, parses |-> TRUE, data |-> [ lastUpdated |-> "2025" ] ] }
    \cup { [ ok |-> TRUE, status |-> 200, parses |-> TRUE,
             data |-> [ groups |-> l, lastUpdated |-> "2025" ] ] : l \in GroupLists }

FilterValues == { "all", "community", "affinity" }

\* the catch clause of getGroups, lines 769-772
getGroupsCatch2_Rethrow == [ status |-> "rejected", value |-> <<>> ]

getGroupsCatch2 == [ status |-> "fulfilled", value |-> getFallbackGroups2 ]

\* getGroups from the parsed body on, lines 762-767
getGroupsBody2(data) ==
    IF IsNull(data) THEN getGroupsCatch2
    ELSE IF "error" \in DOMAIN data /\ data.error # "" THEN getGroupsCatch2
    ELSE IF "groups" \notin DOMAIN data THEN getGroupsCatch2
    ELSE IF processGroupsThrows2(data.groups) THEN getGroupsCatch2
    ELSE [ status |-> "fulfilled", value |-> processGroups2(data.groups) ]

\* getGroups from the Response on, lines 755-767
getGroupsResponse2(r) ==
    IF ~r.ok THEN getGroupsCatch2
    ELSE IF ~r.parses THEN getGroupsCatch2
    ELSE getGroupsBody2(r.data)

\* group.coordinates, undefined in a record that has no such field
CoordinatesOf(group) ==
    IF "coordinates" \in DOMAIN group THEN group.coordinates ELSE <<>>

\* the cards updateGroupsList writes into #groups-list
updateGroupsList(groupList, filter) ==
    IF Len(groupList) = 0 THEN <<>>
    ELSE LET shown == SelectSeq(groupList,
                                LAMBDA g : filter = "all" \/ g.groupType = filter)
         IN  [ i \in 1..Len(shown) |-> shown[i].id ]

createGroupMarker(group) == [ id |-> group.id, latlng |-> CoordinatesOf(group) ]

\* the markers list addGroupsToMap builds
addGroupsToMap_KeepOld(groupList) ==
    LET placed == SelectSeq(groupList, LAMBDA g : CoordinatesOf(g) # <<>>)
    IN  markers \o [ i \in 1..Len(placed) |->
                        [ marker |-> createGroupMarker(placed[i]), group |-> placed[i] ] ]

\* a marker for every group, placed or not
addGroupsToMap_All(groupList) ==
    [ i \in 1..Len(groupList) |->
        [ marker |-> createGroupMarker(groupList[i]), group |-> groupList[i] ] ]

addGroupsToMap(groupList) ==
    LET placed == SelectSeq(groupList, LAMBDA g : CoordinatesOf(g) # <<>>)
    IN  [ i \in 1..Len(placed) |->
            [ marker |-> createGroupMarker(placed[i]), group |-> placed[i] ] ]

LayersOf(markerList) == [ i \in 1..Len(markerList) |-> markerList[i].marker ]

AppInit ==
    /\ variant \in { 1, 2 }
    /\ flowPc = [ f \in Flows |-> "idle" ]
    /\ response = [ f \in Flows |-> NoResponse ]
    /\ settled = [ f \in Flows |-> Pending ]
    /\ running = 0
    /\ getGroupsCalls = 0
    /\ groups = <<>>
    /\ markers = <<>>
    /\ clusterLayers = <<>>
    /\ sidebar = <<>>
    /\ currentFilter = "all"
    /\ ClassIdle
    /\ PipeIdle

\* a call of getGroups by flow f, up to its first await: the first client
\* returns its fallback list (line 249), the second starts a fetch (line 753)
CallGetGroups(f, phase) ==
    /\ getGroupsCalls' = getGroupsCalls + 1
    /\ IF variant = 1
       THEN /\ settled' = [ settled EXCEPT ![f] =
                                [ status |-> "fulfilled", value |-> getFallbackGroups ] ]
            /\ flowPc' = [ flowPc EXCEPT ![f] = phase \o "_resolved" ]
            /\ running' = f
       ELSE /\ settled' = settled
            /\ flowPc' = [ flowPc EXCEPT ![f] = phase \o "_fetch" ]
            /\ running' = 0

\* DOMContentLoaded: CommunityMapApp.init, initializeComponents, CommunityMap.init
\* (createMap, setupControls) and loadGroups up to its await
Start ==
    /\ running = 0
    /\ flowPc[1] = "idle"
    /\ CallGetGroups(1, "load")
    /\ UNCHANGED <<response, groups, markers, clusterLayers, sidebar, currentFilter,
                   variant, classVars, pipeVars>>

\* window.refreshMapData(): refreshData and loadGroups up to its await
RefreshData(f) ==
    /\ running = 0
    /\ f > 1
    /\ flowPc[f] = "idle"
    /\ flowPc[f - 1] # "idle"
    /\ CallGetGroups(f, "load")
    /\ UNCHANGED <<response, groups, markers, clusterLayers, sidebar, currentFilter,
                   variant, classVars, pipeVars>>

PhaseOf(f) ==
    IF flowPc[f] \in { "load_fetch", "load_body", "load_resolved" } THEN "load" ELSE "stats"

\* the fetch of flow f settles; getGroups runs on to text() or json(), or,
\* when the fetch was rejected, to its catch clause
FetchSettles(f) ==
    /\ running = 0
    /\ flowPc[f] \in { "load_fetch", "stats_fetch" }
    /\ \/ /\ settled' = [ settled EXCEPT ![f] = getGroupsCatch2 ]
          /\ flowPc' = [ flowPc EXCEPT ![f] = PhaseOf(f) \o "_resolved" ]
          /\ running' = f
          /\ UNCHANGED response
       \/ \E r \in Responses :
            /\ response' = [ response EXCEPT ![f] = r ]
            /\ flowPc' = [ flowPc EXCEPT ![f] = PhaseOf(f) \o "_body" ]
            /\ UNCHANGED <<settled, running>>
    /\ UNCHANGED <<getGroupsCalls, groups, markers, clusterLayers, sidebar,
                   currentFilter, variant, classVars, pipeVars>>

\* the body read of flow f settles; getGroups runs to its return
BodySettles(f) ==
    /\ running = 0
    /\ flowPc[f] \in { "load_body", "stats_body" }
    /\ settled' = [ settled EXCEPT ![f] = getGroupsResponse2(response[f]) ]
    /\ flowPc' = [ flowPc EXCEPT ![f] = PhaseOf(f) \o "_resolved" ]
    /\ running' = f
    /\ UNCHANGED <<response, getGroupsCalls, groups, markers, clusterLayers, sidebar,
                   currentFilter, variant, classVars, pipeVars>>

\* loadGroups after its await, lines 107-117 of map.js
LoadGroupsResumes(f) ==
    /\ running = f
    /\ flowPc[f] = "load_resolved"
    /\ IF settled[f].status = "fulfilled"
       THEN /\ groups' = settled[f].value
            /\ sidebar' = updateGroupsList(groups', currentFilter)
            /\ flowPc' = [ flowPc EXCEPT ![f] = "loaded" ]
            /\ running' = f
       ELSE \* rethrown at line 116, caught by init (34-37) or refreshData (208-211)
            /\ flowPc' = [ flowPc EXCEPT ![f] = "failed" ]
            /\ running' = 0
            /\ UNCHANGED <<groups, sidebar>>
    /\ settled' = [ settled EXCEPT ![f] = Pending ]
    /\ response' = [ response EXCEPT ![f] = NoResponse ]
    /\ UNCHANGED <<getGroupsCalls, markers, clusterLayers, currentFilter,
                   variant, classVars, pipeVars>>

\* the caller of loadGroups after its await: addGroupsToMap, then
\* getGroupStats up to the await in getGroups
CallerResumes(f) ==
    /\ running = f
    /\ flowPc[f] = "loaded"
    /\ markers' = addGroupsToMap(groups)
    /\ clusterLayers' = LayersOf(markers')
    /\ CallGetGroups(f, "stats")
    /\ UNCHANGED <<response, groups, sidebar, currentFilter,
                   variant, classVars, pipeVars>>

\* getGroupStats after its await, then updateGapAnalysis, which only logs
StatsResumes(f) ==
    /\ running = f
    /\ flowPc[f] = "stats_resolved"
    /\ flowPc' = [ flowPc EXCEPT ![f] = "done" ]
    /\ settled' = [ settled EXCEPT ![f] = Pending ]
    /\ response' = [ response EXCEPT ![f] = NoResponse ]
    /\ running' = 0
    /\ UNCHANGED <<getGroupsCalls, groups, markers, clusterLayers, sidebar,
                   currentFilter, variant, classVars, pipeVars>>

\* the change listener of #group-type-filter, then filterGroups
FilterChange(value) ==
    /\ running = 0
    /\ flowPc[1] # "idle"
    /\ currentFilter' = value
    /\ sidebar' = updateGroupsList(groups, value)
    /\ clusterLayers' =
           LayersOf(SelectSeq(markers,
                              LAMBDA m : value = "all" \/ m.group.groupType = value))
    /\ UNCHANGED <<flowPc, response, settled, running, getGroupsCalls, groups, markers,
                   variant, classVars, pipeVars>>

AppNext ==
    \/ Start
    \/ \E f \in Flows : RefreshData(f)
    \/ \E f \in Flows : FetchSettles(f)
    \/ \E f \in Flows : BodySettles(f)
    \/ \E f \in Flows : LoadGroupsResumes(f)
    \/ \E f \in Flows : CallerResumes(f)
    \/ \E f \in Flows : StatsResumes(f)
    \/ \E value \in FilterValues : FilterChange(value)

SpecApp == AppInit /\ [][AppNext]_vars

(***************************************************************************)
(* C5.  When the fetch fails (network error or a non-2xx answer), the body *)
(* is malformed, or the group list is empty, getGroups returns exactly the *)
(* five-record fallback list of its client; it never returns an empty      *)
(* list.                                                                   *)
(***************************************************************************)
Resolved(f) == flowPc[f] \in { "load_resolved", "stats_resolved" }

BuiltInList == IF variant = 1 THEN getFallbackGroups ELSE getFallbackGroups2

\* what the data source gave flow f: no answer, a non-2xx answer, a body that
\* is not the JSON object the proxy sends, or a list with no group in it
SourceFailedOrEmpty(f) ==
    LET r == response[f]
    IN  \/ r = NoResponse
        \/ ~r.ok
        \/ ~r.parses
        \/ "groups" \notin DOMAIN r.data
        \/ r.data.groups = <<>>

C5_FallbackOnFailureOrEmpty ==
    \A f \in Flows :
        Resolved(f) =>
            /\ settled[f].value # <<>>
            /\ SourceFailedOrEmpty(f) => settled[f].value = BuiltInList

(***************************************************************************)
(* C6.  getGroups never rejects: whatever the fetch, the body read and the *)
(* processing of the records do, its promise is fulfilled with a list of   *)
(* group records, and neither init nor refreshData ends in its catch       *)
(* clause because of loadGroups.                                           *)
(***************************************************************************)
IsGroupRecord(g) == { "id", "name", "groupType", "location" } \subseteq DOMAIN g

C6_GetGroupsNeverRejects ==
    \A f \in Flows :
        /\ flowPc[f] # "failed"
        /\ Resolved(f) =>
              /\ settled[f].status = "fulfilled"
              /\ \A i \in 1..Len(settled[f].value) : IsGroupRecord(settled[f].value[i])

\* a list with a null element made processGroups throw inside getGroups, and
\* loadGroups went on with the list the catch clause returned
C6_Witness ==
    \E f \in Flows :
        /\ variant = 2
        /\ flowPc[f] = "load_resolved"
        /\ response[f].ok /\ response[f].parses
        /\ "groups" \in DOMAIN response[f].data
        /\ \E i \in 1..Len(response[f].data.groups) : IsNull(response[f].data.groups[i])
        /\ settled[f].status = "fulfilled"
        /\ Len(settled[f].value) = 5

(***************************************************************************)
(* C7.  When a load started earlier returns after one started later has    *)
(* been applied, the earlier result is discarded: it changes neither       *)
(* CommunityMap.groups nor the sidebar.                                    *)
(***************************************************************************)
Applied(f) ==
    flowPc[f] \in { "loaded", "stats_fetch", "stats_body", "stats_resolved", "done" }

C7_LaterStartedWins ==
    [][ \A f \in Flows :
            ( /\ flowPc[f] = "load_resolved"
              /\ \E g \in Flows : g > f /\ Applied(g) )
            => ( groups' = groups /\ sidebar' = sidebar ) ]_vars

(***************************************************************************)
(* C8.  Whenever the page can be seen (no continuation of the running task *)
(* is pending), the sidebar and the map show one and the same batch, the   *)
(* one in CommunityMap.groups: the cards are those of its groups that pass *)
(* the filter, and every marker on the map is the marker of one of its     *)
(* groups, all of them when the filter is 'all'.                           *)
(***************************************************************************)
RangeOf(list) == { list[i] : i \in 1..Len(list) }

CardsOfBatch ==
    LET shown == SelectSeq(groups, LAMBDA g : currentFilter = "all"
                                              \/ g.groupType = currentFilter)
    IN  [ i \in 1..Len(shown) |-> shown[i].id ]

MarkersOfBatch ==
    LET placed == SelectSeq(groups, LAMBDA g : CoordinatesOf(g) # <<>>)
    IN  [ i \in 1..Len(placed) |-> [ id |-> placed[i].id, latlng |-> CoordinatesOf(placed[i]) ] ]

PreferenceTexts ==
    { "", "  ", "DMV Area", "Contact for Location", "Varies by week",
      "Shaw", "Dupont Circle, DC", " , Bethesda", "Roanoke VA", "Baltimore, MD",
      "Online", "Constructor", "Downtown Silver Spring" }

\* attributes.location, the second
LocationTexts == { "", "varies", "Old Town, Alexandria VA", "Capitol Hill" }

\* the four fields read after them
LaterFields ==
    { [ contact_info |-> "", church_center_url_location |-> "",
        address |-> "", meeting_location |-> "" ],
      [ contact_info |-> "Petworth", church_center_url_location |-> "",
        address |-> "", meeting_location |-> "" ],
      [ contact_info |-> "", church_center_url_location |-> "Takoma",
        address |-> "", meeting_location |-> "" ],
      [ contact_info |-> "", church_center_url_location |-> "",
        address |-> "DMV area", meeting_location |-> "Takoma Park" ],
      [ contact_info |-> "", church_center_url_location |-> "",
        address |-> "", meeting_location |-> "Navy Yard" ] }

ResolveNames ==
    { "", "Supper Club", "Arlington Young Professionals", "NoVA Hikers",
      "Dupont and Silver Spring Runners" }

ResolveBags ==
    { [ NoAttributes EXCEPT !.name = nm, !.location_type_preference = p, !.location = l,
                            !.contact_info = t.contact_info,
                            !.church_center_url_location = t.church_center_url_location,
                            !.address = t.address,
                            !.meeting_location = t.meeting_location,
                            !.archived = "false" ] :
        nm \in ResolveNames, p \in PreferenceTexts, l \in LocationTexts, t \in LaterFields }

\* extractLocation ended in an exception
LocationThrown ==
    [ address |-> "", neighborhood |-> "", coordinates |-> <<>>,
      hasSpecificLocation |-> FALSE, error |-> "TypeError" ]

ResolveInit ==
    /\ attributes \in ResolveBags
    /\ groupType = ""
    /\ locationResult = NoLocation
    /\ rngStream \in [ 1..2 -> 0..(RandDen - 1) ]
    /\ rngCalls = 0
    /\ invocation = NoInvocation
    /\ sourceGroups = <<>>
    /\ rawGroups = <<>>
    /\ pipePc = "idle"
    /\ processed = <<>>
    /\ result = <<>>
    /\ previousResult = <<>>
    /\ AppIdle

ExtractLocation ==
    /\ locationResult = NoLocation
    /\ locationResult' = IF extractLocationThrows(attributes) THEN LocationThrown
                         ELSE extractLocation(attributes, rngCalls)
    /\ rngCalls' = rngCalls + DrawsOf(attributes)
    /\ UNCHANGED <<attributes, groupType, invocation, sourceGroups, rawGroups, pipePc,
                   processed, result, previousResult, rngStream, appVars>>

ResolveNext == ExtractLocation

SpecResolve == ResolveInit /\ [][ResolveNext]_vars

Returned == locationResult \notin { NoLocation, LocationThrown }

(***************************************************************************)
(* C11.  Among the location fields of a record, in the order               *)
(* location_type_preference, location, contact_info,                       *)
(* church_center_url_location, address, meeting_location, the resolver     *)
(* chooses the first that is non-empty and is not a "no info" sentinel     *)
(* (blank, 'dmv area', 'contact for location', or containing 'varies',     *)
(* whatever the case of the letters): a sentinel in an earlier field does  *)
(* not keep a later qualifying field from being the address.               *)
(***************************************************************************)
LocationFields(attrs) ==
    << attrs.location_type_preference, attrs.location, attrs.contact_info,
       attrs.church_center_url_location, attrs.address, attrs.meeting_location >>

IsSentinel(text) ==
    \/ Trim(text) = ""
    \/ ToLowerCase(text) \in { "dmv area", "contact for location" }
    \/ Occurs("varies", ToLowerCase(text))

\* position of the first field that qualifies, 0 when none does
FirstQualifying(attrs) ==
    LET fields == LocationFields(attrs)
        qualifying == { i \in 1..Len(fields) : ~IsSentinel(fields[i]) }
    IN  IF qualifying = {} THEN 0
        ELSE CHOOSE i \in qualifying : \A j \in qualifying : i <= j

C11_FirstQualifyingField ==
    ( Returned /\ FirstQualifying(attributes) # 0 ) =>
        locationResult.address = LocationFields(attributes)[FirstQualifying(attributes)]

(***************************************************************************)
(* C12.  When every location field is empty or a sentinel and the name     *)
(* holds a place keyword as a substring, whatever the case of its letters, *)
(* extractLocation returns that keyword as the address, with               *)
(* hasSpecificLocation = true and coordinates that are not null.           *)
(***************************************************************************)
NameKeywords(name) ==
    { k \in { locationKeywords[i] : i \in 1..Len(locationKeywords) } :
        Occurs(k, ToLowerCase(name)) }

C12_InferredFromName ==
    ( /\ locationResult # NoLocation
      /\ FirstQualifying(attributes) = 0
      /\ NameKeywords(attributes.name) # {} ) =>
        /\ Returned
        /\ locationResult.address \in NameKeywords(attributes.name)
        /\ locationResult.hasSpecificLocation
        /\ locationResult.coordinates # <<>>

\* the example of the resolver section: the fields say 'DMV Area', the name
\* says Arlington
C12_Witness ==
    /\ attributes.name = "Arlington Young Professionals"
    /\ attributes.location_type_preference = "DMV Area"
    /\ FirstQualifying(attributes) = 0
    /\ locationResult.address = "arlington"
    /\ locationResult.hasSpecificLocation
    /\ WithinJitter(locationResult.coordinates, ArlingtonAnchor)

(***************************************************************************)
(* C13.  When no location field qualifies and the name holds no place      *)
(* keyword, extractLocation returns hasSpecificLocation = false and        *)
(* coordinates = null; in every other case it returns hasSpecificLocation  *)
(* = true and coordinates that are not null; so hasSpecificLocation is     *)
(* true exactly when coordinates is not null.                              *)
(***************************************************************************)
NothingToResolve(attrs) ==
    FirstQualifying(attrs) = 0 /\ NameKeywords(attrs.name) = {}

C13_SpecificExactlyWhenResolved ==
    Returned =>
        /\ NothingToResolve(attributes) =>
               ( ~locationResult.hasSpecificLocation /\ locationResult.coordinates = <<>> )
        /\ ~NothingToResolve(attributes) =>
               ( locationResult.hasSpecificLocation /\ locationResult.coordinates # <<>> )
        /\ locationResult.hasSpecificLocation <=> locationResult.coordinates # <<>>

(***************************************************************************)
(* C14.  geocodeLocation applies its lookups in strict precedence: the     *)
(* gazetteer entry whose key equals the lower-cased, trimmed string; else  *)
(* an entry whose key is a substring of the string or has the string as a  *)
(* substring; else the Arlington anchor when the string holds 'virginia'   *)
(* or 'va'; else the Silver Spring anchor when it holds 'maryland' or      *)
(* 'md'; else DC center.  It always returns a point within the jitter      *)
(* bound of the point of the first rule that applies.                      *)
(***************************************************************************)
GazetteerEntries == { dmvLocations[i] : i \in 1..Len(dmvLocations) }

\* the points the first applicable rule allows for the string
RulePoints(locationString) ==
    LET loc == Trim(ToLowerCase(locationString))
        exact == { e \in GazetteerEntries : e.place = loc }
        substring == { e \in GazetteerEntries : Occurs(e.place, loc) \/ Occurs(loc, e.place) }
    IN  IF exact # {} THEN { e.coords : e \in exact }
        ELSE IF substring # {} THEN { e.coords : e \in substring }
        ELSE IF Occurs("virginia", loc) \/ Occurs("va", loc) THEN { ArlingtonAnchor }
        ELSE IF Occurs("maryland", loc) \/ Occurs("md", loc) THEN { SilverSpringAnchor }
        ELSE { DCCenter }

C14_GeocodePrecedence ==
    ( locationResult # NoLocation /\ ~IsSentinel(selectedLocation(attributes)) ) =>
        /\ Returned
        /\ \E p \in RulePoints(selectedLocation(attributes)) :
               WithinJitter(locationResult.coordinates, p)

(***************************************************************************)
(* C15.  For every chosen location string the neighborhood is the text     *)
(* before the first comma with the surrounding whitespace removed, and     *)
(* 'DMV Area' when nothing is left; 'Dupont Circle, DC' gives the          *)
(* neighborhood 'Dupont Circle' and coordinates within the jitter bound    *)
(* of the Dupont Circle gazetteer point.                                   *)
(***************************************************************************)
DupontCircle == <<389097, -770365>>

\* length of the text before the first comma
BeforeComma(text) ==
    LET commas == { i \in 1..Len(text) : SubSeq(text, i, i) = "," }
    IN  IF commas = {} THEN Len(text)
        ELSE (CHOOSE i \in commas : \A j \in commas : i <= j) - 1

Blank(text, from, to) == \A i \in from..to : SubSeq(text, i, i) \in Whitespace

\* display is text[1..BeforeComma] without its leading and trailing whitespace
IsNeighborhoodOf(display, text) ==
    LET n == BeforeComma(text)
    IN  IF Blank(text, 1, n) THEN display = "DMV Area"
        ELSE \E i \in 1..n : \E j \in i..n :
                /\ Blank(text, 1, i - 1) /\ ~Blank(text, i, i)
                /\ Blank(text, j + 1, n) /\ ~Blank(text, j, j)
                /\ display = SubSeq(text, i, j)

C15_NeighborhoodBeforeComma ==
    ( Returned /\ locationResult.hasSpecificLocation ) =>
        /\ IsNeighborhoodOf(locationResult.neighborhood, locationResult.address)
        /\ locationResult.address = "Dupont Circle, DC" =>
               /\ locationResult.neighborhood = "Dupont Circle"
               /\ WithinJitter(locationResult.coordinates, DupontCircle)

C15_Witness ==
    /\ Returned
    /\ locationResult.address = "Dupont Circle, DC"
    /\ locationResult.neighborhood = "Dupont Circle"
    /\ WithinJitter(locationResult.coordinates, DupontCircle)

(***************************************************************************)
(* C16.  distributeGroupsGeographically returns every record that already  *)
(* has hasSpecificLocation = true as it received it, every field the same, *)
(* and such a record does not advance the round-robin counter: the first   *)
(* unresolved record is put on the first anchor however many resolved      *)
(* records precede it.                                                     *)
(***************************************************************************)
Unresolved(i) == ~processed[i].location.hasSpecificLocation

C16_SpecificPassThrough ==
    pipePc = "distributed" =>
        /\ Len(result) = Len(processed)
        /\ \A i \in 1..Len(processed) :
               /\ ~Unresolved(i) => result[i] = processed[i]
               /\ ( Unresolved(i) /\ \A j \in 1..(i - 1) : ~Unresolved(j) ) =>
                      result[i].location.neighborhood = distributionPoints[1].name

\* a resolved record passed through ahead of an unresolved one
C16_Witness ==
    /\ pipePc = "distributed"
    /\ Len(result) = 2
    /\ ~Unresolved(1) /\ result[1] = processed[1]
    /\ Unresolved(2) /\ result[2].location.neighborhood = "Dupont Circle"

(***************************************************************************)
(* C17.  There are 12 anchors, and in one pass the k-th unresolved record  *)
(* in input order (from 0, unresolved records only) is put on anchor       *)
(* k mod 12: of 13 unresolved records the 13th is on anchor 0.             *)
(***************************************************************************)
UnresolvedBefore(i) == Cardinality({ j \in 1..(i - 1) : Unresolved(j) })

\* names of distributionPoints are distinct: the name tells the anchor
OnAnchor(record, a) ==
    /\ record.location.neighborhood = distributionPoints[a + 1].name
    /\ WithinJitter(record.coordinates, distributionPoints[a + 1].coords)

C17_RoundRobin ==
    pipePc = "distributed" =>
        /\ Len(distributionPoints) = 12
        /\ \A i \in 1..Len(result) :
               Unresolved(i) =>
                   /\ OnAnchor(result[i], UnresolvedBefore(i) % 12)
                   /\ UnresolvedBefore(i) = 12 => OnAnchor(result[i], 0)

\* the 13th unresolved record, back on the first anchor
C17_Witness ==
    /\ pipePc = "distributed"
    /\ \E i \in 1..Len(result) :
           /\ Unresolved(i)
           /\ UnresolvedBefore(i) = 12
           /\ result[i].location.neighborhood = "Dupont Circle"

(***************************************************************************)
(* C18.  Every record the distributor puts on an anchor comes out with     *)
(* hasSpecificLocation = true, the address '<anchor name> area', the       *)
(* anchor's name as neighborhood, and coordinates that are not null and    *)
(* lie within the jitter bound of that same anchor.                        *)
(***************************************************************************)
PlacedOn(record, point) ==
    /\ record.location.hasSpecificLocation
    /\ record.location.address = point.name \o " area"
    /\ record.location.neighborhood = point.name
    /\ record.coordinates # <<>>
    /\ WithinJitter(record.coordinates, point.coords)
    /\ record.location.coordinates # <<>>
    /\ WithinJitter(record.location.coordinates, point.coords)

C18_PlacedRecordShape ==
    pipePc = "distributed" =>
        \A i \in 1..Len(result) :
            Unresolved(i) =>
                \E a \in 1..Len(distributionPoints) : PlacedOn(result[i], distributionPoints[a])

\* a record that came in without a location, out on the second anchor
C18_Witness ==
    /\ pipePc = "distributed"
    /\ Len(result) = 2
    /\ Unresolved(2)
    /\ processed[2].location.address = "Contact for meeting location"
    /\ result[2].location.address = "Arlington area"
    /\ result[2].location.neighborhood = "Arlington"
    /\ result[2].location.hasSpecificLocation
    /\ WithinJitter(result[2].coordinates, distributionPoints[2].coords)

(***************************************************************************)
(* C19.  Anchor assignment is deterministic: a second pass over the same   *)
(* list puts every unresolved record on the anchor the first pass put it   *)
(* on, because each pass counts from 0 whatever ran before it; the two     *)
(* results differ in the jittered coordinates only.                        *)
(***************************************************************************)
WithoutJitter(record) ==
    [ record EXCEPT !.coordinates = <<>>, !.location.coordinates = <<>> ]

C19_AnchorsDeterministic ==
    pipePc = "redistributed" =>
        /\ Len(result) = Len(previousResult)
        /\ \A i \in 1..Len(result) :
               /\ WithoutJitter(result[i]) = WithoutJitter(previousResult[i])
               /\ Unresolved(i) =>
                      \E a \in 1..Len(distributionPoints) :
                          /\ PlacedOn(result[i], distributionPoints[a])
                          /\ PlacedOn(previousResult[i], distributionPoints[a])

\* two passes, the same anchor, another jitter
C19_Witness ==
    /\ pipePc = "redistributed"
    /\ \E i \in 1..Len(result) :
           /\ Unresolved(i)
           /\ result[i].location.neighborhood = previousResult[i].location.neighborhood
           /\ result[i].coordinates # previousResult[i].coordinates

(***************************************************************************)
(* The proxy: fetchGroups of planning-center.js (lines 81-131) and its     *)
(* copy in map.js (lines 529-591), which differ in the filter, and         *)
(* processGroupData, which both apply to what the filter keeps.  The       *)
(* handler answers 500 when fetchGroups throws; it sends no list then.     *)
(* An attribute Planning Center left out is "" (archived: "undefined").    *)
(***************************************************************************)
SourceBag(name, preference, archived, url, enrollment) ==
    [ name |-> name, description |-> "", location_type_preference |-> preference,
      schedule |-> "", contact_email |-> "", public_church_center_web_url |-> url,
      memberships_count |-> 7, archived |-> archived, updated_at |-> "",
      group_type |-> "", enrollment |-> enrollment ]

SourceGroupPool ==
    { [ id |-> "301", attributes |->
          SourceBag("Supper Club", "Capitol Hill", "false", "https://t.ch/301", "open") ],
      [ id |-> "302", attributes |->
          SourceBag("Retired", "Bethesda", "true", "https://t.ch/302", "open") ],
      [ id |-> "303", attributes |->
          SourceBag("", "", "undefined", "https://t.ch/303", "open") ],
      [ id |-> "304", attributes |->
          SourceBag("Arlington Young Professionals", "", "false", "", "open") ],
      [ id |-> "305", attributes |->
          SourceBag("Sunday Hikers", "Shaw", "false", "https://t.ch/305", "closed") ],
      [ id |-> "306", attributes |->
          SourceBag("Alumni", "Varies by week", "true", "", "request_to_join") ],
      [ id |-> "307", attributes |->
          SourceBag("Builders", "Constructor", "false", "https://t.ch/307", "open") ] }

RECURSIVE SourceListsUpTo(_)
SourceListsUpTo(n) ==
    IF n = 0 THEN { <<>> }
    ELSE SourceListsUpTo(n - 1)
            \cup { Append(l, g) : l \in { x \in SourceListsUpTo(n - 1) : Len(x) = n - 1 },
                                  g \in SourceGroupPool }

SourceLists == SourceListsUpTo(MaxGroups)

\* JavaScript truthiness of attributes.archived
Truthy(archived) == archived \notin { "false", "undefined", "" }

\* processGroupData without the `|| false` of line 148
processGroupData_ArchivedAsSent(group) ==
    LET a == group.attributes
    IN  [ id |-> group.id,
          attributes |->
            [ name |-> IF a.name # "" THEN a.name ELSE "Unnamed Group",
              description |-> a.description,
              location |-> IF a.location_type_preference # ""
                           THEN a.location_type_preference ELSE "DMV Area",
              schedule |-> IF a.schedule # "" THEN a.schedule ELSE "Contact for details",
              contact_email |-> a.contact_email,
              public_url |-> a.public_church_center_web_url,
              memberships_count |-> a.memberships_count,
              archived |-> a.archived,
              updated_at |-> a.updated_at,
              group_type |-> a.group_type,
              enrollment |-> IF a.enrollment # "" THEN a.enrollment ELSE "open",
              \* attributes processGroupData does not copy: undefined to the client
              location_type_preference |-> "", contact_info |-> "",
              church_center_url_location |-> "", address |-> "",
              meeting_location |-> "" ] ]

processGroupData(group) ==
    LET a == group.attributes
    IN  [ id |-> group.id,
          attributes |->
            [ name |-> IF a.name # "" THEN a.name ELSE "Unnamed Group",
              description |-> a.description,
              location |-> IF a.location_type_preference # ""
                           THEN a.location_type_preference ELSE "DMV Area",
              schedule |-> IF a.schedule # "" THEN a.schedule ELSE "Contact for details",
              contact_email |-> a.contact_email,
              public_url |-> a.public_church_center_web_url,
              memberships_count |-> a.memberships_count,
              archived |-> IF Truthy(a.archived) THEN a.archived ELSE "false",
              updated_at |-> a.updated_at,
              group_type |-> a.group_type,
              enrollment |-> IF a.enrollment # "" THEN a.enrollment ELSE "open",
              \* attributes processGroupData does not copy: undefined to the client
              location_type_preference |-> "", contact_info |-> "",
              church_center_url_location |-> "", address |-> "",
              meeting_location |-> "" ] ]

MapProcessGroupData(list) == [ i \in 1..Len(list) |-> processGroupData(list[i]) ]

\* a filter that leaves the archived groups in
fetchGroups_KeepArchived(source) ==
    MapProcessGroupData(SelectSeq(source, LAMBDA g :
        /\ g.attributes.public_church_center_web_url # ""
        /\ g.attributes.enrollment = "open"))

\* planning-center.js, lines 113-121
fetchGroups(source) ==
    MapProcessGroupData(SelectSeq(source, LAMBDA g :
        /\ ~Truthy(g.attributes.archived)
        /\ g.attributes.public_church_center_web_url # ""
        /\ g.attributes.enrollment = "open"))

\* map.js, lines 569-581: `return isActive`
fetchGroups2(source) ==
    MapProcessGroupData(SelectSeq(source, LAMBDA g : ~Truthy(g.attributes.archived)))

\* Either Planning Center answers the proxy of this repository, or the client
\* reads the answer of whatever is deployed at baseURL, as in SpecPipeline.
ProxyInit ==
    /\ \/ /\ sourceGroups \in SourceLists
          /\ rawGroups = <<>>
          /\ pipePc = "source"
       \/ /\ sourceGroups = <<>>
          /\ rawGroups \in RawLists
          /\ pipePc = "start"
    /\ rngStream \in [ 1..1 -> 0..(RandDen - 1) ]
    /\ rngCalls = 0
    /\ invocation = NoInvocation
    /\ processed = <<>>
    /\ result = <<>>
    /\ previousResult = <<>>
    /\ ClassIdle
    /\ AppIdle

\* the proxy of planning-center.js answers GET /groups
FetchGroups ==
    /\ pipePc = "source"
    /\ rawGroups' = fetchGroups(sourceGroups)
    /\ pipePc' = "start"
    /\ UNCHANGED <<invocation, sourceGroups, processed, result, previousResult,
                   rngStream, rngCalls, classVars, appVars>>

\* the proxy of map.js answers GET /groups
FetchGroups2 ==
    /\ pipePc = "source"
    /\ rawGroups' = fetchGroups2(sourceGroups)
    /\ pipePc' = "start"
    /\ UNCHANGED <<invocation, sourceGroups, processed, result, previousResult,
                   rngStream, rngCalls, classVars, appVars>>

ProxyNext ==
    \/ FetchGroups
    \/ FetchGroups2
    \/ GetGroups
    \/ ProcessGroups
    \/ DistributeGroupsGeographically

SpecProxy == ProxyInit /\ [][ProxyNext]_vars

(***************************************************************************)
(* C20.  Only records whose archived attribute is false reach the          *)
(* presentation layer: fetchGroups sends no group Planning Center marks    *)
(* archived, processGroups keeps a group only when its archived attribute  *)
(* is exactly false, and every record returned is an active one.           *)
(***************************************************************************)
Sent == pipePc # "source"

Processed == pipePc \in { "processed", "distributed", "redistributed" }

C20_OnlyUnarchived ==
    /\ Sent =>
           \A i \in 1..Len(sourceGroups) :
               sourceGroups[i].attributes.archived = "true" =>
                   \A j \in 1..Len(rawGroups) : rawGroups[j].id # sourceGroups[i].id
    /\ Processed =>
           /\ Ids(processed) = Ids(SelectSeq(rawGroups,
                                       LAMBDA g : g.attributes.archived = "false"))
           /\ \A i \in 1..Len(processed) : processed[i].isActive
    /\ pipePc \in { "distributed", "redistributed", "fallback" } =>
           /\ \A i \in 1..Len(result) : result[i].isActive
           /\ pipePc # "fallback" => Ids(result) = Ids(processed)

\* an archived group stopped by the proxy, one without the attribute let through
C20_Witness ==
    /\ pipePc = "distributed"
    /\ Len(sourceGroups) = 2
    /\ sourceGroups[1].attributes.archived = "true"
    /\ sourceGroups[2].attributes.archived = "undefined"
    /\ Ids(rawGroups) = << sourceGroups[2].id >>
    /\ Ids(result) = << sourceGroups[2].id >>

\* an archived group in the answer the client reads, dropped by processGroups
C20_ClientWitness ==
    /\ pipePc = "distributed"
    /\ Len(rawGroups) = 2
    /\ rawGroups[1].attributes.archived = "true"
    /\ rawGroups[2].attributes.archived = "false"
    /\ Ids(result) = << rawGroups[2].id >>

(***************************************************************************)
(* C27.  In every record the live path returns (processGroups, then        *)
(* distributeGroupsGeographically) the top-level coordinates and           *)
(* location.coordinates are the same pair: the marker stands where the     *)
(* record says the group is.                                               *)
(***************************************************************************)
C27_CoordinatesAgree ==
    pipePc \in { "distributed", "redistributed" } =>
        \A i \in 1..Len(result) :
            result[i].coordinates = result[i].location.coordinates

(***************************************************************************)
(* C28.  distributeGroupsGeographically returns as many records as it      *)
(* received, with the same ids in the same order, and in a record it       *)
(* places it changes location and coordinates only: id, name, description, *)
(* groupType, meetingDay, memberCount and isActive stay as they came in    *)
(* (contactInfo and lastUpdated as well).                                  *)
(***************************************************************************)
KeptFields ==
    { "id", "name", "description", "groupType", "meetingDay", "memberCount", "isActive" }

C28_DistributorFrame ==
    pipePc \in { "distributed", "redistributed" } =>
        /\ Len(result) = Len(processed)
        /\ Ids(result) = Ids(processed)
        /\ \A i \in 1..Len(result) :
               /\ DOMAIN result[i] = DOMAIN processed[i]
               /\ KeptFields \subseteq DOMAIN result[i]
               /\ \A f \in DOMAIN result[i] \ { "location", "coordinates" } :
                      result[i][f] = processed[i][f]

\* a placed record next to a passed one, both with the fields they came with
C28_Witness ==
    /\ pipePc = "distributed"
    /\ Len(result) = 2
    /\ Unresolved(1) /\ ~Unresolved(2)
    /\ result[1].location # processed[1].location
    /\ result[1].coordinates # processed[1].coordinates
    /\ result[1].name = processed[1].name
    /\ result[1].name # "Unnamed Group"
    /\ Ids(result) = Ids(processed)

(***************************************************************************)
(* C29.  No record is lost between proxy and client: every group the proxy *)
(* sends has archived exactly false, whatever Planning Center sent, so the *)
(* filter of processGroups keeps every one of them and the live path       *)
(* returns as many records as the proxy sent, in the same order.           *)
(***************************************************************************)
\* the list in rawGroups is the answer of the proxy to a list that was not empty
FromProxy == Sent /\ sourceGroups # <<>>

C29_NoneLostAfterProxy ==
    FromProxy =>
        /\ \A j \in 1..Len(rawGroups) : rawGroups[j].attributes.archived = "false"
        /\ Processed =>
               /\ Len(processed) = Len(rawGroups)
               /\ Ids(processed) = Ids(rawGroups)
        /\ pipePc \in { "distributed", "redistributed" } =>
               /\ Len(result) = Len(rawGroups)
               /\ Ids(result) = Ids(rawGroups)

\* a group sent without the attribute archived and one with archived false,
\* both through the proxy and both returned
C29_Witness ==
    /\ FromProxy
    /\ pipePc = "distributed"
    /\ Len(sourceGroups) = 2
    /\ sourceGroups[1].attributes.archived = "undefined"
    /\ sourceGroups[2].attributes.archived = "false"
    /\ Len(rawGroups) = 2
    /\ rawGroups[1].attributes.archived = "false"
    /\ Ids(result) = Ids(sourceGroups)

(***************************************************************************)
(* C30.  When no gazetteer key equals the location string and several keys *)
(* match it as substrings, geocodeLocation takes the first of them in the  *)
(* order the gazetteer declares its keys, whatever their lengths; and the  *)
(* location inferred from a name is the first keyword of the list that     *)
(* occurs in the name.                                                     *)
(***************************************************************************)
\* positions of the gazetteer keys that match text as substrings, either way
SubstringMatches(text) ==
    { i \in 1..Len(dmvLocations) :
        Occurs(dmvLocations[i].place, text) \/ Occurs(text, dmvLocations[i].place) }

Least(S) == CHOOSE i \in S : \A j \in S : i <= j

KeywordPositions(name) ==
    { i \in 1..Len(locationKeywords) : Occurs(locationKeywords[i], ToLowerCase(name)) }

C30_FirstDeclaredWins ==
    ( Returned /\ locationResult.hasSpecificLocation ) =>
        LET loc == Trim(ToLowerCase(locationResult.address))
        IN  /\ ( /\ \A e \in GazetteerEntries : e.place # loc
                 /\ SubstringMatches(loc) # {} ) =>
                   WithinJitter(locationResult.coordinates,
                                dmvLocations[Least(SubstringMatches(loc))].coords)
            /\ ( /\ FirstQualifying(attributes) = 0
                 /\ KeywordPositions(attributes.name) # {} ) =>
                   locationResult.address
                       = locationKeywords[Least(KeywordPositions(attributes.name))]

\* 'Downtown Silver Spring': 'downtown' is declared before 'silver spring'
C30_Witness ==
    /\ Returned
    /\ locationResult.address = "Downtown Silver Spring"
    /\ Cardinality(SubstringMatches("downtown silver spring")) = 2
    /\ \E e \in GazetteerEntries :
           e.place = "downtown" /\ WithinJitter(locationResult.coordinates, e.coords)
    /\ ~WithinJitter(locationResult.coordinates, SilverSpringAnchor)

\* 'dupont' is listed before 'silver spring'
C30_NameWitness ==
    /\ Returned
    /\ attributes.name = "Dupont and Silver Spring Runners"
    /\ FirstQualifying(attributes) = 0
    /\ Cardinality(KeywordPositions(attributes.name)) = 2
    /\ locationResult.address = "dupont"

(***************************************************************************)
(* C24.  Group data is pulled once per page load: from the start of        *)
(* CommunityMapApp.init to its end getGroups is called once, and it is     *)
(* called again by a manual refresh only.                                  *)
(***************************************************************************)
NoRefreshYet == \A f \in Flows \ { 1 } : flowPc[f] = "idle"

C24_PulledOncePerLoad ==
    NoRefreshYet =>
        /\ getGroupsCalls <= 1
        /\ flowPc[1] = "done" => getGroupsCalls = 1

(***************************************************************************)
(* C25.  A load or refresh rebuilds the display from nothing: right after  *)
(* addGroupsToMap the markers list has one entry for each group of         *)
(* CommunityMap.groups that has coordinates, in the order of the batch,    *)
(* and the cluster layer holds the markers of that list and no other, so   *)
(* no marker of an earlier batch is left in either.                        *)
(***************************************************************************)
HasCoordinates(group) == "coordinates" \in DOMAIN group /\ group.coordinates # <<>>

Rebuilt ==
    LET placed == SelectSeq(groups, HasCoordinates)
    IN  /\ Len(markers) = Len(placed)
        /\ \A i \in 1..Len(markers) :
               /\ markers[i].group = placed[i]
               /\ markers[i].marker.id = placed[i].id
               /\ markers[i].marker.latlng = placed[i].coordinates
        /\ clusterLayers = [ i \in 1..Len(markers) |-> markers[i].marker ]

C25_RebuiltFromBatch ==
    [][ \A f \in Flows :
            ( flowPc[f] = "loaded" /\ flowPc'[f] # "loaded" ) => Rebuilt' ]_vars

\* a refresh has put its batch of two on a map that showed another batch
C25_Witness ==
    /\ flowPc[1] = "done"
    /\ flowPc[2] \in { "stats_fetch", "stats_resolved" }
    /\ Len(groups) = 2
    /\ Rebuilt
    /\ Len(markers) = 2
    /\ markers[1].group.id = "203"

(***************************************************************************)
(* C26.  After any sequence of loads, refreshes and filter changes, once   *)
(* the page is at rest, the cluster layer shows exactly the markers of the *)
(* groups whose groupType matches currentFilter (every marker when the     *)
(* filter is 'all'), and the sidebar lists the same groups.                *)
(***************************************************************************)
MatchesFilter(group) == currentFilter = "all" \/ group.groupType = currentFilter

\* no continuation is pending and some load has run addGroupsToMap
AtRest ==
    /\ running = 0
    /\ \E f \in Flows : flowPc[f] \in { "stats_fetch", "stats_body", "done" }

C26_FilterGovernsDisplay ==
    AtRest =>
        /\ clusterLayers =
               LET shown == SelectSeq(markers, LAMBDA m : MatchesFilter(m.group))
               IN  [ i \in 1..Len(shown) |-> shown[i].marker ]
        /\ RangeOf(sidebar) = { clusterLayers[i].id : i \in 1..Len(clusterLayers) }

(***************************************************************************)
(* The proxy function: exports.handler of planning-center.js (lines 4-78)  *)
(* with fetchGroups (lines 81-131), one invocation at a time.  A body is   *)
(* what JSON.stringify is given, <<>> for the empty body; the Authorization *)
(* header, Basic base64(id:secret), is the pair it encodes.  The handler   *)
(* awaits fetch and then text() or json(): it continues when each settles. *)
(***************************************************************************)
FunctionPath == "/.netlify/functions/planning-center"

apiUrl == "https://api.planningcenteronline.com/groups/v2/groups"

headers ==
    [ AllowOrigin |-> "*", AllowHeaders |-> "Content-Type", AllowMethods |-> "GET, OPTIONS" ]

HttpMethods == { "GET", "OPTIONS", "POST", "DELETE", "HEAD" }

EventPaths ==
    { FunctionPath \o "/groups", FunctionPath \o "/groups/", FunctionPath \o "/people",
      FunctionPath, "/groups", "/groups" \o FunctionPath, "/api/groups" }

Environments ==
    [ PLANNING_CENTER_CLIENT_ID : { "", "app-id" }, PLANNING_CENTER_SECRET : { "", "s3cret" } ]

\* what Planning Center can answer; text is the body of an answer that is not ok
UpstreamResponses ==
    { [ ok |-> FALSE, status |-> 401, text |-> "Unauthorized", parses |-> FALSE,
        data |-> JsonNull ],
      [ ok |-> FALSE, status |-> 503, text |-> "", parses |-> FALSE, data |-> JsonNull ],
      [ ok |-> TRUE, status |-> 200, text |-> "", parses |-> FALSE, data |-> JsonNull ],
      [ ok |-> TRUE, status |-> 200, text |-> "", parses |-> TRUE, data |-> JsonNull ],
      [ ok |-> TRUE, status |-> 200, text |-> "", parses |-> TRUE,
        data |-> [ meta |-> "none" ] ],
      [ ok |-> TRUE, status |-> 200, text |-> "", parses |-> TRUE,
        data |-> [ data |-> << JsonNull >> ] ] }
    \cup { [ ok |-> TRUE, status |-> 200, text |-> "", parses |-> TRUE,
             data |-> [ data |-> l ] ] : l \in SourceListsUpTo(1) }

\* String.prototype.replace with a string pattern: the first occurrence only
ReplaceFirst(s, pattern) ==
    LET at == { i \in 1..(Len(s) - Len(pattern) + 1) :
                    SubSeq(s, i, i + Len(pattern) - 1) = pattern }
    IN  IF at = {} THEN s
        ELSE LET i == CHOOSE x \in at : \A y \in at : x <= y
             IN  SubSeq(s, 1, i - 1) \o SubSeq(s, i + Len(pattern), Len(s))

\* `${!!value}`
Exists(value) == IF value # "" THEN "true" ELSE "false"

\* `${response.status}` of a three-digit status
StatusText(status) ==
    IdDigits[(status \div 100) + 1] \o IdDigits[((status \div 10) % 10) + 1]
        \o IdDigits[(status % 10) + 1]

\* the Date the handler reads at line 61
lastUpdated == "2025-01-01T00:00:00.000Z"

OptionsReturn == [ statusCode |-> 200, headers |-> headers, body |-> <<>> ]

NotAllowedReturn ==
    [ statusCode |-> 405, headers |-> headers, body |-> [ error |-> "Method not allowed" ] ]

\* a catch clause that lets the error go on
CatchReturn_Rethrow(message) ==
    [ statusCode |-> 0, headers |-> headers, body |-> <<>> ]

\* the catch clause, lines 66-77
CatchReturn(message) ==
    [ statusCode |-> 500, headers |-> headers,
      body |-> [ error |-> "Failed to fetch data from Planning Center",
                 details |-> message ] ]

SuccessReturn(data) ==
    [ statusCode |-> 200, headers |-> headers,
      body |-> [ groups |-> data, lastUpdated |-> lastUpdated ] ]

\* the environment read as if its variables were always set
CredentialsOf_Defaulted(env) ==
    [ clientId |-> IF env.PLANNING_CENTER_CLIENT_ID # ""
                   THEN env.PLANNING_CENTER_CLIENT_ID ELSE "default-id",
      secret |-> IF env.PLANNING_CENTER_SECRET # ""
                 THEN env.PLANNING_CENTER_SECRET ELSE "default-secret" ]

\* lines 32-33
CredentialsOf(env) ==
    [ clientId |-> env.PLANNING_CENTER_CLIENT_ID, secret |-> env.PLANNING_CENTER_SECRET ]

\* an OPTIONS test that lets the request go on to the method test
IsPreflight_Never(httpMethod) == FALSE

\* line 13
IsPreflight(httpMethod) == httpMethod = "OPTIONS"

HandlerInit ==
    /\ invocation \in
         { [ NoInvocation EXCEPT !.event = [ httpMethod |-> m, path |-> p ],
                                 !.env = e, !.pc = "invoked" ] :
             m \in HttpMethods, p \in EventPaths, e \in Environments }
    /\ sourceGroups = <<>>
    /\ rawGroups = <<>>
    /\ pipePc = "idle"
    /\ processed = <<>>
    /\ result = <<>>
    /\ previousResult = <<>>
    /\ rngStream = <<>>
    /\ rngCalls = 0
    /\ ClassIdle
    /\ AppIdle

Return(value) == [ invocation EXCEPT !.pc = "returned", !.returned = value ]

\* exports.handler up to its return or to the await on fetch
Handler ==
    /\ invocation.pc = "invoked"
    /\ LET event == invocation.event
           credentials == CredentialsOf(invocation.env)
           path == ReplaceFirst(event.path, FunctionPath)
           read == [ invocation EXCEPT !.envRead = TRUE ]
       IN  invocation' =
             IF IsPreflight(event.httpMethod) THEN Return(OptionsReturn)
             ELSE IF event.httpMethod # "GET" THEN Return(NotAllowedReturn)
             ELSE IF credentials.clientId = "" \/ credentials.secret = ""
             THEN [ read EXCEPT
                      !.pc = "returned",
                      !.returned = CatchReturn(
                          "Missing Planning Center API credentials. CLIENT_ID: "
                              \o Exists(credentials.clientId) \o ", SECRET: "
                              \o Exists(credentials.secret)) ]
             ELSE IF path \notin { "/groups", "/groups/" }
             THEN [ read EXCEPT !.pc = "returned",
                                !.returned = CatchReturn("Unknown endpoint: " \o path) ]
             ELSE [ read EXCEPT
                      !.pc = "fetch",
                      !.requests = << [ url |-> apiUrl, method |-> "GET",
                                        authorization |-> << credentials.clientId,
                                                             credentials.secret >> ] >> ]
    /\ UNCHANGED <<sourceGroups, rawGroups, pipePc, processed, result, previousResult,
                   rngStream, rngCalls, classVars, appVars>>

\* the fetch of line 91 settles: rejected (no answer), or an answer whose
\* body is then read
UpstreamSettles ==
    /\ invocation.pc = "fetch"
    /\ \/ invocation' = Return(CatchReturn("fetch failed"))
       \/ \E r \in UpstreamResponses :
            invocation' = [ invocation EXCEPT !.pc = "body", !.upstream = r ]
    /\ UNCHANGED <<sourceGroups, rawGroups, pipePc, processed, result, previousResult,
                   rngStream, rngCalls, classVars, appVars>>

\* text() or json() settles; fetchGroups and the handler run to their return
UpstreamBodySettles ==
    /\ invocation.pc = "body"
    /\ LET r == invocation.upstream
       IN  invocation' =
             IF ~r.ok
             THEN Return(CatchReturn("Planning Center API error: "
                                        \o StatusText(r.status) \o " " \o r.text))
             ELSE IF ~r.parses THEN Return(CatchReturn("Unexpected token < in JSON"))
             ELSE IF IsNull(r.data)
             THEN Return(CatchReturn("Cannot read properties of null (reading 'data')"))
             ELSE IF "data" \notin DOMAIN r.data THEN Return(SuccessReturn(fetchGroups(<<>>)))
             ELSE IF \E i \in 1..Len(r.data.data) : IsNull(r.data.data[i])
             THEN Return(CatchReturn("Cannot read properties of null (reading 'attributes')"))
             ELSE Return(SuccessReturn(fetchGroups(r.data.data)))
    /\ UNCHANGED <<sourceGroups, rawGroups, pipePc, processed, result, previousResult,
                   rngStream, rngCalls, classVars, appVars>>

HandlerNext == Handler \/ UpstreamSettles \/ UpstreamBodySettles

SpecHandler == HandlerInit /\ [][HandlerNext]_vars

(***************************************************************************)
(* C21.  The handler answers OPTIONS with 200 and an empty body, and every *)
(* method other than GET and OPTIONS with 405; in both cases it returns at *)
(* once, having neither read the credentials nor called Planning Center.   *)
(***************************************************************************)
Invoked == invocation.pc \notin { "none", "invoked" }

IsEmptyBody(b) == DOMAIN b = {}

Untouched == ~invocation.envRead /\ invocation.requests = <<>>

C21_PreflightAndMethodGuard ==
    Invoked =>
        /\ invocation.event.httpMethod = "OPTIONS" =>
               /\ invocation.pc = "returned"
               /\ invocation.returned.statusCode = 200
               /\ IsEmptyBody(invocation.returned.body)
               /\ Untouched
        /\ invocation.event.httpMethod \notin { "GET", "OPTIONS" } =>
               /\ invocation.pc = "returned"
               /\ invocation.returned.statusCode = 405
               /\ Untouched

\* a pre-flight on /groups with both secrets set, answered without them
C21_Witness ==
    /\ invocation.pc = "returned"
    /\ invocation.event.httpMethod = "OPTIONS"
    /\ invocation.event.path = FunctionPath \o "/groups"
    /\ invocation.env.PLANNING_CENTER_CLIENT_ID # ""
    /\ invocation.env.PLANNING_CENTER_SECRET # ""
    /\ invocation.returned.statusCode = 200
    /\ IsEmptyBody(invocation.returned.body)
    /\ Untouched

\* a POST on /groups with both secrets set
C21_PostWitness ==
    /\ invocation.pc = "returned"
    /\ invocation.event.httpMethod = "POST"
    /\ invocation.event.path = FunctionPath \o "/groups"
    /\ invocation.env.PLANNING_CENTER_CLIENT_ID # ""
    /\ invocation.env.PLANNING_CENTER_SECRET # ""
    /\ invocation.returned.statusCode = 405
    /\ Untouched

(***************************************************************************)
(* C22.  A GET with either secret absent is answered with 500 and a body   *)
(* of an error and a details message that names the missing credentials;   *)
(* nothing is sent to Planning Center, and no default stands in for a      *)
(* secret: a request that is sent carries the two values of the            *)
(* environment.                                                            *)
(***************************************************************************)
SecretAbsent ==
    \/ invocation.env.PLANNING_CENTER_CLIENT_ID = ""
    \/ invocation.env.PLANNING_CENTER_SECRET = ""

IsErrorBody(b) ==
    /\ DOMAIN b = { "error", "details" }
    /\ b.error # ""
    /\ b.details # ""

C22_MissingSecretIs500 ==
    ( Invoked /\ invocation.event.httpMethod = "GET" ) =>
        /\ SecretAbsent =>
               /\ invocation.pc = "returned"
               /\ invocation.returned.statusCode = 500
               /\ IsErrorBody(invocation.returned.body)
               /\ Occurs("Missing Planning Center API credentials",
                         invocation.returned.body.details)
               /\ invocation.env.PLANNING_CENTER_CLIENT_ID = "" =>
                      Occurs("CLIENT_ID: false", invocation.returned.body.details)
               /\ invocation.env.PLANNING_CENTER_SECRET = "" =>
                      Occurs("SECRET: false", invocation.returned.body.details)
               /\ invocation.requests = <<>>
        /\ \A i \in 1..Len(invocation.requests) :
               invocation.requests[i].authorization
                   = << invocation.env.PLANNING_CENTER_CLIENT_ID,
                        invocation.env.PLANNING_CENTER_SECRET >>

\* GET /groups with the client id set and the secret absent
C22_Witness ==
    /\ invocation.pc = "returned"
    /\ invocation.event.httpMethod = "GET"
    /\ invocation.event.path = FunctionPath \o "/groups"
    /\ invocation.env.PLANNING_CENTER_CLIENT_ID # ""
    /\ invocation.env.PLANNING_CENTER_SECRET = ""
    /\ invocation.returned.statusCode = 500
    /\ Occurs("CLIENT_ID: true, SECRET: false", invocation.returned.body.details)
    /\ invocation.requests = <<>>

(***************************************************************************)
(* C23.  The handler never throws: every invocation returns 200, 405 or    *)
(* 500.  A GET on /groups returns 200 with a body of groups and            *)
(* lastUpdated when the call of Planning Center succeeds, and 500 with a   *)
(* body of error and details when that call fails or is answered with a    *)
(* status that is not 2xx, or when the path is not known.                  *)
(***************************************************************************)
Returns == invocation.pc = "returned"

GetWithSecrets == invocation.event.httpMethod = "GET" /\ ~SecretAbsent

OnGroups ==
    invocation.event.path \in { FunctionPath \o "/groups", FunctionPath \o "/groups/" }

OnUnknownPath ==
    invocation.event.path \in { FunctionPath \o "/people", FunctionPath, "/api/groups" }

\* Planning Center answered 2xx with a JSON object whose data, if any, is a
\* list of groups
UpstreamSucceeded ==
    /\ invocation.upstream # NoResponse
    /\ invocation.upstream.ok
    /\ invocation.upstream.parses
    /\ ~IsNull(invocation.upstream.data)
    /\ "data" \in DOMAIN invocation.upstream.data =>
           \A i \in 1..Len(invocation.upstream.data.data) :
               ~IsNull(invocation.upstream.data.data[i])

\* the fetch was rejected, or answered with a status that is not 2xx
UpstreamFailed ==
    /\ invocation.requests # <<>>
    /\ invocation.upstream = NoResponse \/ ~invocation.upstream.ok

C23_HandlerAlwaysAnswers ==
    Returns =>
        /\ invocation.returned.statusCode \in { 200, 405, 500 }
        /\ ( GetWithSecrets /\ OnGroups /\ UpstreamSucceeded ) =>
               /\ invocation.returned.statusCode = 200
               /\ DOMAIN invocation.returned.body = { "groups", "lastUpdated" }
               /\ invocation.returned.body.lastUpdated # ""
        /\ ( GetWithSecrets /\ ( ( OnGroups /\ UpstreamFailed ) \/ OnUnknownPath ) ) =>
               /\ invocation.returned.statusCode = 500
               /\ IsErrorBody(invocation.returned.body)

\* GET /groups answered by Planning Center with one group, passed on
C23_Witness ==
    /\ Returns
    /\ GetWithSecrets /\ OnGroups /\ UpstreamSucceeded
    /\ invocation.returned.statusCode = 200
    /\ Len(invocation.returned.body.groups) = 1

\* GET /groups answered by Planning Center with 401
C23_FailureWitness ==
    /\ Returns
    /\ GetWithSecrets /\ OnGroups
    /\ invocation.upstream # NoResponse /\ invocation.upstream.status = 401
    /\ invocation.returned.statusCode = 500
    /\ invocation.returned.body.details = "Planning Center API error: 401 Unauthorized"

====
